---- MODULE Spec2Model ----
(***************************************************************************)
(* Bookkeeping application (stock, sales, debtors with installment        *)
(* payments, expenses) over a hosted relational backend.                  *)
(*                                                                         *)
(* The database tables are global state.  Every browser session has its   *)
(* own React state (fetched lists, forms, dialogs) and runs the handlers  *)
(* of the page it shows.  A handler is split at its backend calls: one    *)
(* action per backend call, holding the local code that runs before the   *)
(* call and, when the handler ends there, the code after it.              *)
(*                                                                         *)
(* Money is counted in mills (1/1000 of a naira): Cent mills are 0.01.    *)
(* The DECIMAL(10,2) columns round what is written to whole cents.        *)
(***************************************************************************)
EXTENDS Integers, Sequences, FiniteSets, Bags, TLC

(***************************************************************************)
(* Bounds of the model.                                                    *)
(***************************************************************************)
NumSessions == 2
MaxDebtors == 1
MaxItems == 2
MaxPayments == 2
MaxStock == 2
MaxSales == 2
MaxQuantity == 3
MaxSold == 3
MaxExpenses == 2
MaxFailures == 1
MaxLen == 2
MaxCells == 2
MaxClicks == 5
MaxDebtClicks == 6
NumUsers == 2
MaxRows == 2
MaxReminders == 3
MaxChange == 3

Sessions == 1..NumSessions

(* Mills in 0.01, the scale of the DECIMAL(10,2) columns. *)
Cent == 10

(***************************************************************************)
(* Helpers.                                                                *)
(***************************************************************************)
(* A JavaScript value that may be null: <<>> or <<v>>. *)
Null == <<>>
Some(v) == <<v>>
IsNull(o) == o = <<>>
Get(o) == o[1]

RECURSIVE SumSeq(_)
SumSeq(s) == IF s = <<>> THEN 0 ELSE Head(s) + SumSeq(Tail(s))

(* A table is the bag of its rows (the generated row ids are left out). *)
NoRows == EmptyBag
InsertRow(rows, r) == rows (+) SetToBag({r})
RowCount(rows) == BagCardinality(rows)

(* The sum of the column amount, and of the column total, over the rows in
   left of a table. *)
RECURSIVE SumAmount(_, _)
SumAmount(rows, left) ==
  IF left = {} THEN 0
  ELSE LET r == CHOOSE x \in left : TRUE
       IN CopiesIn(r, rows) * r.amount + SumAmount(rows, left \ {r})
RECURSIVE SumTotal(_, _)
SumTotal(rows, left) ==
  IF left = {} THEN 0
  ELSE LET r == CHOOSE x \in left : TRUE
       IN CopiesIn(r, rows) * r.total + SumTotal(rows, left \ {r})

(* What the backend answers: "ok", or the message of the error it returns. *)
Errors == {"permission denied"}
Outcomes == {"ok"} \cup Errors

(* A DECIMAL(10,2) column stores a number rounded to two decimals, half away
   from zero. *)
Round2(x) ==
  IF x >= 0 THEN ((x + (Cent \div 2)) \div Cent) * Cent
            ELSE -((((-x) + (Cent \div 2)) \div Cent) * Cent)

(***************************************************************************)
(* What the user can type.                                                 *)
(***************************************************************************)
(* DebtPage item form: quantity (parseInt) and selling price (parseFloat).
   The inputs are not inside a <form>, so the step="0.01" of the price input
   is not enforced: 0.015 is accepted by itemSchema. *)
ItemInputs == {<<1, 10>>, <<3, 15>>}
(* DebtPage "Initial Payment Amount": "" (Null), or a number; not inside a
   <form> either. *)
InitialPayments == {Null, Some(5), Some(6), Some(20)}
(* PaymentModal amount: "" or a number.  The input sits in a <form> with
   min="0.01" step="0.01", so a submitted number is a whole number of cents. *)
PaymentAmounts == {Null, Some(10), Some(20)}
CustomerNames == {"", "Ada Obi"}

VARIABLES
  currentPage,         \* Dashboard: the page each session shows
  debtors,             \* table debtors: id -> row
  debtorSeq,           \* number of debtor ids issued (ids are never reused)
  debt_items,          \* table debt_items: its rows
  payments,            \* table payments: its rows
  debtorsView,         \* DebtPage.debtors: the rows last fetched
  selectedDebtor,      \* DebtPage.selectedDebtor
  isPaymentModalOpen,  \* DebtPage.isPaymentModalOpen
  amount,              \* PaymentModal.amount
  formData,            \* DebtPage.formData
  pay,                 \* PaymentModal.handleSubmit in flight
  create,              \* createDebtor in flight
  loading,             \* the loading flag of the page shown (DebtPage,
                       \* SalesPage or ExpenseTracking)
  fetching,            \* the page's list fetch is in flight
  toast,               \* the toast that the step just taken has shown
  showForm,            \* the showForm flag of the add form on the page shown
                       \* (StockManagement or ExpenseTracking)
  failures,            \* number of backend calls that have failed
  clicks,              \* number of user operations left (Null: any number)
  stock,               \* table stock: id -> row
  stockSeq,            \* number of stock ids issued
  sales,               \* table sales: id -> row
  saleSeq,             \* number of sale ids issued
  stockView,           \* StockManagement.stock: the rows last fetched (the
                       \* columns the handlers read: id -> quantity)
  salesView,           \* SalesPage.sales: the rows last fetched (their ids)
  restockItem,         \* StockManagement.restockItem
  restockQuantity,     \* StockManagement.restockQuantity
  stockForm,           \* StockManagement.formData
  saleForm,            \* SalesPage.formData
  stockLoading,        \* StockManagement.loading
  stockFetching,       \* StockManagement.fetchStock is in flight
  sale,                \* SalesPage.handleSubmit in flight
  expenses,            \* table expenses: id -> row
  expenseSeq,          \* number of expense ids issued
  expensesView,        \* ExpenseTracking.expenses: the rows last fetched
  expenseForm,         \* ExpenseTracking.formData
  user_settings,       \* table user_settings: its rows
  settings,            \* SettingsPage.settings (its profit_margin_goal)
  save,                \* SettingsPage.handleSave in flight
  profitMarginGoal,    \* AnalyticsDashboard.profitMarginGoal
  salesData,           \* AnalyticsDashboard.salesData (its totals)
  analytics,           \* AnalyticsDashboard.fetchAnalytics in flight
  tables,              \* the tables as the row-level policies see them
  selected,            \* the rows the last select returned, and to whom
  job,                 \* send-weekly-reminders: a run of the handler
  dashboard,           \* Dashboard: user, loading, the route shown
  comparison,          \* AnalyticsDashboard: a monthly comparison shown
  csvRows,             \* exportToCsv: the rows it is given
  csvContent,          \* exportToCsv: the text it writes (Null: none)
  csvParsed            \* the records read back from the text (Null: none)

debtDb == <<debtors, debtorSeq, debt_items, payments>>
debtUi == <<debtorsView, selectedDebtor, isPaymentModalOpen, amount, formData,
            pay, create>>
stockDb == <<stock, stockSeq, sales, saleSeq>>
stockUi == <<stockView, salesView, restockItem, restockQuantity, stockForm,
             saleForm, stockLoading, stockFetching, sale>>
expenseVars == <<expenses, expenseSeq, expensesView, expenseForm>>
shared == <<currentPage, loading, fetching, showForm>>
csvVars == <<csvRows, csvContent, csvParsed>>
settingsVars == <<user_settings, settings, save, profitMarginGoal, salesData,
                  analytics>>
rlsVars == <<tables, selected>>
edgeVars == <<job, dashboard, comparison>>
vars == <<shared, toast, failures, clicks, debtDb, debtUi, stockDb, stockUi,
          expenseVars, csvVars, settingsVars, rlsVars, edgeVars>>

(* The backend answers a call with out; at most MaxFailures calls fail. *)
Answer(out) ==
  IF out = "ok" THEN failures' = failures
  ELSE failures < MaxFailures /\ failures' = failures + 1

(* A user operation (a click or a submit) is taken from the budget. *)
NoLimit == Null
Click ==
  IF clicks = NoLimit THEN clicks' = clicks
  ELSE Get(clicks) > 0 /\ clicks' = Some(Get(clicks) - 1)

(* What the DebtPage, the SalesPage and the expenses page leave alone. *)
notDebt == <<stockDb, stockUi, expenseVars, showForm, csvVars, settingsVars,
             rlsVars, edgeVars>>
notSales == <<debtDb, debtUi, expenseVars, csvVars, settingsVars, rlsVars, edgeVars>>
notExpenses == <<debtDb, debtUi, stockDb, stockUi, csvVars, settingsVars,
                 rlsVars, edgeVars>>
notRls == <<shared, toast, failures, clicks, debtDb, debtUi, stockDb, stockUi,
            expenseVars, csvVars, settingsVars, edgeVars>>

(***************************************************************************)
(* DebtPage and PaymentModal.                                              *)
(***************************************************************************)
(* toast({ title, description }) shown in session s; NoToast: none shown. *)
NoToast == [session |-> 0, title |-> "", description |-> ""]
(* ToastNoMessage: the toast leaves out the description it is given. *)
ToastNoMessage(s, t, d) == [session |-> s, title |-> t, description |-> ""]
Toast(s, t, d) == [session |-> s, title |-> t, description |-> d]

EmptyForm == [customer_name |-> "", items |-> <<>>, grand_total |-> 0,
              payment_amount |-> Null]
IdlePay == [pc |-> "idle", debtor |-> Null, paymentAmount |-> 0]
IdleCreate == [pc |-> "idle", debtorId |-> 0, paymentAmount |-> 0]

(* The sum of the amounts of a debtor's rows in payments. *)
PaidSum(id) ==
  SumAmount(payments, {p \in BagToSet(payments) : p.debtor_id = id})

(* The sum of the totals of a debtor's rows in debt_items. *)
ItemsSum(id) ==
  SumTotal(debt_items, {it \in BagToSet(debt_items) : it.debtor_id = id})

(* items.reduce((sum, item) => sum + item.total, 0) *)
GrandTotal(items) == SumSeq([i \in 1..Len(items) |-> items[i].total])

(* customerSchema: name of 2 to 100 characters (the phone is taken as valid). *)
CustomerValid(name) == name # ""

(* newBalance <= 0 ? "paid" : "pending" *)
StatusOf(balance) == IF balance <= 0 THEN "paid" ELSE "pending"

(* The row the database stores for an insert or update of a debtor. *)
DebtorRow(grand_total, total_paid, current_balance, status) ==
  [grand_total |-> Round2(grand_total), total_paid |-> Round2(total_paid),
   current_balance |-> Round2(current_balance), status |-> status]

(* fetchDebtors(): the call is issued; DebtPage.loading is set. *)
StartFetch(s) ==
  /\ fetching' = [fetching EXCEPT ![s] = TRUE]
  /\ loading' = [loading EXCEPT ![s] = TRUE]

(* fetchDebtors: the select arrives. *)
FetchDebtorsDone(s, out) ==
  /\ UNCHANGED clicks
  /\ Answer(out)
  /\ currentPage[s] = "debt"
  /\ fetching[s]
  /\ fetching' = [fetching EXCEPT ![s] = FALSE]
  /\ loading' = [loading EXCEPT ![s] = FALSE]
  /\ IF out = "ok"
       THEN /\ debtorsView' = [debtorsView EXCEPT ![s] = debtors]
            /\ toast' = NoToast
       ELSE /\ toast' = Toast(s, "Error fetching debtors", out)
            /\ UNCHANGED debtorsView
  /\ UNCHANGED <<notDebt, currentPage, debtDb, selectedDebtor, isPaymentModalOpen,
                 amount, formData, pay, create>>

(* addItemToBundle with a valid item typed into the item form. *)
AddItemToBundle(s, quantity, sellingPrice) ==
  /\ Click
  /\ UNCHANGED failures
  /\ currentPage[s] = "debt"
  /\ ~isPaymentModalOpen[s]
  /\ create[s].pc = "idle"
  /\ Len(formData[s].items) < MaxItems
  /\ quantity >= 1 /\ sellingPrice >= Cent
  /\ LET newItem == [quantity |-> quantity, selling_price |-> sellingPrice,
                     total |-> quantity * sellingPrice]
         updatedItems == Append(formData[s].items, newItem)
     IN formData' = [formData EXCEPT ![s].items = updatedItems,
                                     ![s].grand_total = GrandTotal(updatedItems)]
  /\ toast' = Toast(s, "Item added to bundle", "")
  /\ UNCHANGED <<notDebt, currentPage, debtDb, debtorsView, selectedDebtor,
                 isPaymentModalOpen, amount, loading, fetching, pay, create>>

(* removeItemFromBundle(index) *)
RemoveItemFromBundle(s, index) ==
  /\ Click
  /\ UNCHANGED failures
  /\ currentPage[s] = "debt"
  /\ ~isPaymentModalOpen[s]
  /\ create[s].pc = "idle"
  /\ index \in 1..Len(formData[s].items)
  /\ LET items == formData[s].items
         updatedItems == [i \in 1..(Len(items) - 1) |->
                            IF i < index THEN items[i] ELSE items[i + 1]]
     IN formData' = [formData EXCEPT ![s].items = updatedItems,
                                     ![s].grand_total = GrandTotal(updatedItems)]
  /\ toast' = NoToast
  /\ UNCHANGED <<notDebt, currentPage, debtDb, debtorsView, selectedDebtor,
                 isPaymentModalOpen, amount, loading, fetching, pay, create>>

(* parseFloat(formData.payment_amount) || 0 *)
ParseOrZero(text) == IF IsNull(text) THEN 0 ELSE Get(text)

(* createDebtor, to its insert into debtors: the user has typed the customer
   name and the initial payment and clicks "Create Debtor". *)
CreateDebtor(s, name, payment, out) ==
  /\ Click
  /\ currentPage[s] = "debt"
  /\ ~isPaymentModalOpen[s]
  /\ ~loading[s]
  /\ create[s].pc = "idle"
  /\ LET form == [formData[s] EXCEPT !.customer_name = name,
                                     !.payment_amount = payment]
         paymentAmount == ParseOrZero(payment)
         currentBalance == form.grand_total - paymentAmount
         status == StatusOf(currentBalance)
         id == debtorSeq + 1
     IN /\ formData' = [formData EXCEPT ![s] = form]
        /\ IF ~CustomerValid(name)
             THEN \* setErrors(...); return
                  /\ toast' = NoToast
                  /\ UNCHANGED <<debtDb, loading, create, failures>>
           ELSE IF Len(form.items) = 0
             THEN /\ toast' = Toast(s, "Please add at least one item", "")
                  /\ UNCHANGED <<debtDb, loading, create, failures>>
           ELSE IF paymentAmount < 0 \/ paymentAmount > form.grand_total
             THEN \* setErrors(...); return
                  /\ toast' = NoToast
                  /\ UNCHANGED <<debtDb, loading, create, failures>>
           ELSE IF out = "ok"
             THEN /\ Answer(out)
                  /\ debtorSeq < MaxDebtors
                  /\ debtorSeq' = id
                  /\ debtors' = (id :> DebtorRow(form.grand_total, paymentAmount,
                                                 currentBalance, status))
                                @@ debtors
                  /\ loading' = [loading EXCEPT ![s] = TRUE]
                  /\ create' = [create EXCEPT ![s] =
                                  [pc |-> "items", debtorId |-> id,
                                   paymentAmount |-> paymentAmount]]
                  /\ toast' = NoToast
                  /\ UNCHANGED <<debt_items, payments>>
             ELSE /\ Answer(out)
                  /\ toast' = Toast(s, "Error creating debtor", out)
                  /\ UNCHANGED <<debtDb, loading, create>>
  /\ UNCHANGED <<notDebt, currentPage, debtorsView, selectedDebtor, isPaymentModalOpen,
                 amount, fetching, pay>>

(* createDebtor ends well: toast, the form is reset, fetchDebtors(). *)
CreateDebtorEnd(s) ==
  /\ toast' = Toast(s, "Debtor created successfully!", "")
  /\ formData' = [formData EXCEPT ![s] = EmptyForm]
  /\ create' = [create EXCEPT ![s] = IdleCreate]
  /\ StartFetch(s)

(* The rows createDebtor inserts into debt_items, as the table stores them. *)
RECURSIVE InsertItems(_, _, _)
InsertItems(rows, id, items) ==
  IF items = <<>> THEN rows
  ELSE InsertItems(
         InsertRow(rows, [debtor_id |-> id, quantity |-> Head(items).quantity,
                          selling_price |-> Round2(Head(items).selling_price),
                          total |-> Round2(Head(items).total)]),
         id, Tail(items))

(* createDebtor: the insert into debt_items.  The foreign key rejects rows of a
   debtor that is gone. *)
CreateDebtorItems(s, out) ==
  /\ UNCHANGED clicks
  /\ Answer(out)
  /\ currentPage[s] = "debt"
  /\ create[s].pc = "items"
  /\ LET id == create[s].debtorId
     IN IF out = "ok"
          THEN /\ id \in DOMAIN debtors
               /\ debt_items' = InsertItems(debt_items, id, formData[s].items)
               /\ IF create[s].paymentAmount > 0
                    THEN /\ create' = [create EXCEPT ![s].pc = "payment"]
                         /\ toast' = NoToast
                         /\ UNCHANGED <<formData, loading, fetching>>
                    ELSE CreateDebtorEnd(s)
          ELSE /\ loading' = [loading EXCEPT ![s] = FALSE]
               /\ toast' = Toast(s, "Error adding items", out)
               /\ create' = [create EXCEPT ![s] = IdleCreate]
               /\ UNCHANGED <<debt_items, formData, fetching>>
  /\ UNCHANGED <<notDebt, currentPage, debtors, debtorSeq, payments, debtorsView,
                 selectedDebtor, isPaymentModalOpen, amount, pay>>

(* createDebtor: the insert of the initial payment; its error is not read. *)
CreateDebtorPayment(s, out) ==
  /\ UNCHANGED clicks
  /\ Answer(out)
  /\ currentPage[s] = "debt"
  /\ create[s].pc = "payment"
  /\ LET id == create[s].debtorId
     IN IF out = "ok"
          THEN /\ id \in DOMAIN debtors
               /\ RowCount(payments) < MaxPayments
               /\ payments' = InsertRow(payments,
                    [debtor_id |-> id,
                     amount |-> Round2(create[s].paymentAmount)])
          ELSE UNCHANGED payments
  /\ CreateDebtorEnd(s)
  /\ UNCHANGED <<notDebt, currentPage, debtors, debtorSeq, debt_items, debtorsView,
                 selectedDebtor, isPaymentModalOpen, amount, pay>>

(* WithoutDebtorKept: the rows of the debtor stay in the table. *)
WithoutDebtorKept(rows, id) == rows
(* The rows of a table that are not of debtor id (ON DELETE CASCADE). *)
WithoutDebtor(rows, id) ==
  [r \in {x \in BagToSet(rows) : x.debtor_id # id} |-> CopiesIn(r, rows)]

(* deleteDebtor(id), confirmed by the user. *)
DeleteDebtor(s, id, out) ==
  /\ Click
  /\ Answer(out)
  /\ currentPage[s] = "debt"
  /\ ~isPaymentModalOpen[s]
  /\ ~loading[s]
  /\ id \in DOMAIN debtorsView[s]
  /\ IF out = "ok"
       THEN /\ debtors' = [d \in DOMAIN debtors \ {id} |-> debtors[d]]
            /\ debt_items' = WithoutDebtor(debt_items, id)
            /\ payments' = WithoutDebtor(payments, id)
            /\ toast' = Toast(s, "Debtor deleted successfully", "")
            /\ StartFetch(s)
       ELSE /\ toast' = Toast(s, "Error deleting debtor", out)
            /\ UNCHANGED <<debtors, debt_items, payments, loading, fetching>>
  /\ UNCHANGED <<notDebt, currentPage, debtorSeq, debtorsView, selectedDebtor,
                 isPaymentModalOpen, amount, formData, pay, create>>

(* handlePayment(debtor): the Pay button of a row shown as pending. *)
HandlePayment(s, id) ==
  /\ Click
  /\ UNCHANGED failures
  /\ currentPage[s] = "debt"
  /\ ~isPaymentModalOpen[s]
  /\ ~loading[s]
  /\ id \in DOMAIN debtorsView[s]
  /\ debtorsView[s][id].status = "pending"
  /\ selectedDebtor' = [selectedDebtor EXCEPT ![s] =
       Some([id |-> id,
             current_balance |-> debtorsView[s][id].current_balance,
             total_paid |-> debtorsView[s][id].total_paid,
             grand_total |-> debtorsView[s][id].grand_total])]
  /\ isPaymentModalOpen' = [isPaymentModalOpen EXCEPT ![s] = TRUE]
  /\ toast' = NoToast
  /\ UNCHANGED <<notDebt, currentPage, debtDb, debtorsView, amount, formData, loading,
                 fetching, pay, create>>

(* onClose: Cancel, or the dialog is dismissed. *)
ClosePaymentModal(s) ==
  /\ Click
  /\ UNCHANGED failures
  /\ currentPage[s] = "debt"
  /\ isPaymentModalOpen[s]
  /\ isPaymentModalOpen' = [isPaymentModalOpen EXCEPT ![s] = FALSE]
  /\ toast' = NoToast
  /\ UNCHANGED <<notDebt, currentPage, debtDb, debtorsView, selectedDebtor, amount,
                 formData, loading, fetching, pay, create>>

(* paymentSchema: a number (not NaN) of at least 0.01. *)
PaymentValid(text) == ~IsNull(text) /\ Get(text) >= Cent

(* NewTotalPaidStored: the payment is added to the total_paid of the stored
   row. *)
NewTotalPaidStored(debtor, paymentAmount) ==
  debtors[debtor.id].total_paid + paymentAmount
(* debtor.total_paid + paymentAmount *)
NewTotalPaid(debtor, paymentAmount) == debtor.total_paid + paymentAmount
(* debtor.current_balance - paymentAmount *)
NewBalance(debtor, paymentAmount) == debtor.current_balance - paymentAmount

(* PaymentModal.handleSubmit, to its insert into payments: the user has typed
   the amount and submits. *)
PaySubmit(s, text, out) ==
  /\ Click
  /\ currentPage[s] = "debt"
  /\ isPaymentModalOpen[s]
  /\ ~IsNull(selectedDebtor[s])
  /\ pay[s].pc = "idle"
  /\ amount' = [amount EXCEPT ![s] = text]
  /\ LET debtor == Get(selectedDebtor[s])
     IN IF ~PaymentValid(text) \/ Get(text) > debtor.current_balance
          THEN \* setError(...); return
               /\ toast' = NoToast
               /\ UNCHANGED <<payments, pay, failures>>
          ELSE IF out = "ok"
            THEN /\ Answer(out)
                 /\ debtor.id \in DOMAIN debtors
                 /\ RowCount(payments) < MaxPayments
                 /\ payments' = InsertRow(payments,
                      [debtor_id |-> debtor.id, amount |-> Round2(Get(text))])
                 /\ pay' = [pay EXCEPT ![s] =
                      [pc |-> "update", debtor |-> selectedDebtor[s],
                       paymentAmount |-> Get(text)]]
                 /\ toast' = NoToast
            ELSE /\ Answer(out)
                 /\ toast' = Toast(s, "Error recording payment", out)
                 /\ UNCHANGED <<payments, pay>>
  /\ UNCHANGED <<notDebt, currentPage, debtors, debtorSeq, debt_items, debtorsView,
                 selectedDebtor, isPaymentModalOpen, formData, loading,
                 fetching, create>>

(* PaymentModal.handleSubmit: the update of the debtor row, then
   onPaymentSuccess (fetchDebtors) and onClose. *)
PayUpdate(s, out) ==
  /\ UNCHANGED clicks
  /\ Answer(out)
  /\ currentPage[s] = "debt"
  /\ pay[s].pc = "update"
  /\ pay' = [pay EXCEPT ![s] = IdlePay]
  /\ LET debtor == Get(pay[s].debtor)
         paymentAmount == pay[s].paymentAmount
         newTotalPaid == NewTotalPaid(debtor, paymentAmount)
         newBalance == NewBalance(debtor, paymentAmount)
         newStatus == StatusOf(newBalance)
     IN IF out = "ok"
          THEN /\ debtors' =
                    IF debtor.id \in DOMAIN debtors
                      THEN [debtors EXCEPT ![debtor.id] =
                              DebtorRow(@.grand_total, newTotalPaid, newBalance,
                                        newStatus)]
                      ELSE debtors
               /\ toast' = Toast(s, "Payment recorded successfully!", "")
               /\ amount' = [amount EXCEPT ![s] = Null]
               /\ StartFetch(s)
               /\ isPaymentModalOpen' = [isPaymentModalOpen EXCEPT ![s] = FALSE]
          ELSE /\ toast' = Toast(s, "Error updating debtor", out)
               /\ UNCHANGED <<debtors, amount, loading, fetching,
                              isPaymentModalOpen>>
  /\ UNCHANGED <<notDebt, currentPage, debtorSeq, debt_items, payments, debtorsView,
                 selectedDebtor, formData, create>>

(***************************************************************************)
(* StockManagement (rendered inside the SalesPage).                        *)
(***************************************************************************)
(* StockManagement add form: product name, quantity (parseInt) and cost price
   (parseFloat); "" is Null.  The inputs sit in a <form> with min="1" and
   min="0.01" step="0.01". *)
EmptyStockForm == [product_name |-> "", quantity |-> Null, cost_price |-> Null]
StockInputs ==
  {[product_name |-> "Rice", quantity |-> Some(2), cost_price |-> Some(20)],
   [product_name |-> "", quantity |-> Some(2), cost_price |-> Some(20)]}
(* The restock dialog's "Quantity to Add" (not inside a <form>). *)
RestockInputs == {Some(0), Some(1)}
(* The inputs of the specification with several sessions. *)
StockFew == {[product_name |-> "Rice", quantity |-> Some(2),
              cost_price |-> Some(20)]}
RestockFew == {Some(1)}

(* stockSchema *)
StockValid(form) ==
  /\ form.product_name # ""
  /\ ~IsNull(form.quantity) /\ Get(form.quantity) >= 1
  /\ ~IsNull(form.cost_price) /\ Get(form.cost_price) >= Cent

(* StockManagement.fetchStock(): the call is issued. *)
StartFetchStock(s) ==
  /\ stockFetching' = [stockFetching EXCEPT ![s] = TRUE]
  /\ stockLoading' = [stockLoading EXCEPT ![s] = TRUE]

(* StockManagement.fetchStock: the select arrives. *)
FetchStockDone(s, out) ==
  /\ UNCHANGED clicks
  /\ Answer(out)
  /\ currentPage[s] = "sales"
  /\ stockFetching[s]
  /\ stockFetching' = [stockFetching EXCEPT ![s] = FALSE]
  /\ stockLoading' = [stockLoading EXCEPT ![s] = FALSE]
  /\ IF out = "ok"
       THEN /\ stockView' = [stockView EXCEPT ![s] =
                              [id \in DOMAIN stock |-> stock[id].quantity]]
            /\ toast' = NoToast
       ELSE /\ toast' = Toast(s, "Error fetching stock", out)
            /\ UNCHANGED stockView
  /\ UNCHANGED <<notSales, showForm, currentPage, loading, fetching, stockDb, salesView,
                 restockItem, restockQuantity, stockForm, saleForm, sale>>

(* The "Add Stock" / "Cancel" button: setShowForm(!showForm). *)
StockToggleForm(s) ==
  /\ Click
  /\ currentPage[s] = "sales"
  /\ IsNull(restockItem[s])
  /\ showForm' = [showForm EXCEPT ![s] = ~showForm[s]]
  /\ toast' = NoToast
  /\ UNCHANGED <<notSales, currentPage, loading, fetching, failures, stockDb,
                 stockUi>>

(* StockManagement.handleSubmit: the user has filled the add form and
   submits it. *)
StockHandleSubmit(s, form, out) ==
  /\ Click
  /\ currentPage[s] = "sales"
  /\ IsNull(restockItem[s])
  /\ showForm[s]
  /\ ~stockLoading[s]
  /\ IF ~StockValid(form)
       THEN \* setErrors(...); return
            /\ stockForm' = [stockForm EXCEPT ![s] = form]
            /\ toast' = NoToast
            /\ UNCHANGED <<stock, stockSeq, stockLoading, stockFetching,
                           showForm, failures>>
       ELSE IF out = "ok"
         THEN /\ Answer(out)
              /\ stockSeq < MaxStock
              /\ stockSeq' = stockSeq + 1
              /\ stock' = (stockSeq + 1 :>
                             [product_name |-> form.product_name,
                              quantity |-> Get(form.quantity),
                              cost_price |-> Round2(Get(form.cost_price)),
                              total_sold |-> 0]) @@ stock
              /\ toast' = Toast(s, "Stock added successfully!", "")
              /\ stockForm' = [stockForm EXCEPT ![s] = EmptyStockForm]
              /\ showForm' = [showForm EXCEPT ![s] = FALSE]
              /\ StartFetchStock(s)
         ELSE /\ Answer(out)
              /\ toast' = Toast(s, "Error adding stock", out)
              /\ stockForm' = [stockForm EXCEPT ![s] = form]
              /\ UNCHANGED <<stock, stockSeq, stockLoading, stockFetching,
                             showForm>>
  /\ UNCHANGED <<notSales, currentPage, loading, fetching, sales, saleSeq,
                 stockView, salesView, restockItem, restockQuantity, saleForm,
                 sale>>

(* StockManagement.handleDelete(id), confirmed by the user. *)
StockHandleDelete(s, id, out) ==
  /\ Click
  /\ Answer(out)
  /\ currentPage[s] = "sales"
  /\ IsNull(restockItem[s])
  /\ ~stockLoading[s]
  /\ id \in DOMAIN stockView[s]
  /\ IF out = "ok"
       THEN /\ stock' = [i \in DOMAIN stock \ {id} |-> stock[i]]
            /\ toast' = Toast(s, "Stock deleted successfully", "")
            /\ StartFetchStock(s)
       ELSE /\ toast' = Toast(s, "Error deleting stock", out)
            /\ UNCHANGED <<stock, stockLoading, stockFetching>>
  /\ UNCHANGED <<notSales, showForm, currentPage, loading, fetching, stockSeq, sales,
                 saleSeq, stockView, salesView, restockItem, restockQuantity,
                 stockForm, saleForm, sale>>

(* The Restock button of a row: setRestockItem(item); setRestockQuantity(""). *)
OpenRestock(s, id) ==
  /\ Click
  /\ UNCHANGED failures
  /\ currentPage[s] = "sales"
  /\ IsNull(restockItem[s])
  /\ ~stockLoading[s]
  /\ id \in DOMAIN stockView[s]
  /\ restockItem' = [restockItem EXCEPT ![s] =
       Some([id |-> id, quantity |-> stockView[s][id]])]
  /\ restockQuantity' = [restockQuantity EXCEPT ![s] = Null]
  /\ toast' = NoToast
  /\ UNCHANGED <<notSales, shared, stockDb, stockView, salesView, stockForm,
                 saleForm, stockLoading, stockFetching, sale>>

(* The restock dialog is cancelled or dismissed: setRestockItem(null). *)
CloseRestock(s) ==
  /\ Click
  /\ UNCHANGED failures
  /\ currentPage[s] = "sales"
  /\ ~IsNull(restockItem[s])
  /\ restockItem' = [restockItem EXCEPT ![s] = Null]
  /\ toast' = NoToast
  /\ UNCHANGED <<notSales, shared, stockDb, stockView, salesView,
                 restockQuantity, stockForm, saleForm, stockLoading,
                 stockFetching, sale>>

(* restockItem.quantity + addQuantity *)
NewQuantity(item, addQuantity) == item.quantity + addQuantity

(* handleRestock: the user has typed the quantity to add and clicks
   "Add Stock". *)
HandleRestock(s, text, out) ==
  /\ Click
  /\ currentPage[s] = "sales"
  /\ ~IsNull(restockItem[s])
  /\ ~stockLoading[s]
  /\ ~IsNull(text)
  /\ LET item == Get(restockItem[s])
         addQuantity == Get(text)
     IN IF addQuantity < 1
          THEN /\ toast' = Toast(s, "Please enter a valid quantity", "")
               /\ restockQuantity' = [restockQuantity EXCEPT ![s] = text]
               /\ UNCHANGED <<stock, restockItem, stockLoading, stockFetching,
                              failures>>
          ELSE IF out = "ok"
            THEN /\ Answer(out)
                 /\ NewQuantity(item, addQuantity) <= MaxQuantity
                 /\ stock' =
                      IF item.id \in DOMAIN stock
                        THEN [stock EXCEPT ![item.id].quantity =
                                NewQuantity(item, addQuantity)]
                        ELSE stock
                 /\ toast' = Toast(s, "Added units to stock", "")
                 /\ restockItem' = [restockItem EXCEPT ![s] = Null]
                 /\ restockQuantity' = [restockQuantity EXCEPT ![s] = Null]
                 /\ StartFetchStock(s)
            ELSE /\ Answer(out)
                 /\ toast' = Toast(s, "Error restocking", out)
                 /\ restockQuantity' = [restockQuantity EXCEPT ![s] = text]
                 /\ UNCHANGED <<stock, restockItem, stockLoading, stockFetching>>
  /\ UNCHANGED <<notSales, showForm, currentPage, loading, fetching, stockSeq, sales,
                 saleSeq, stockView, salesView, stockForm, saleForm, sale>>

(***************************************************************************)
(* SalesPage.                                                              *)
(***************************************************************************)
(* The sale form: product name, quantity (parseInt), cost price and selling
   price (parseFloat).  The inputs sit in a <form> with min="1" for the
   quantity and min="0.01" step="0.01" for the prices, so a submitted price
   is a whole number of cents. *)
EmptySaleForm == [product_name |-> "", quantity |-> Null, cost_price |-> Null,
                  selling_price |-> Null]
SaleInputs ==
  {[product_name |-> "rice", quantity |-> Some(1), cost_price |-> Some(20),
    selling_price |-> Some(30)],
   [product_name |-> "rice", quantity |-> Some(3), cost_price |-> Some(20),
    selling_price |-> Some(10)],
   [product_name |-> "", quantity |-> Some(1), cost_price |-> Some(20),
    selling_price |-> Some(30)]}

SaleValidInputs == {f \in SaleInputs : f.product_name # ""}
SaleFew ==
  {[product_name |-> "rice", quantity |-> Some(1), cost_price |-> Some(20),
    selling_price |-> Some(30)]}
(* A sale at a thin margin, and a sale of two units. *)
SaleThin ==
  {[product_name |-> "rice", quantity |-> Some(1), cost_price |-> Some(100),
    selling_price |-> Some(110)]}
SaleTwo ==
  {[product_name |-> "rice", quantity |-> Some(2), cost_price |-> Some(20),
    selling_price |-> Some(30)]}

IdleSale == [pc |-> "idle", stockItem |-> Null, matched |-> 0]

(* saleSchema (date and time are filled in by default) *)
SaleValid(form) ==
  /\ form.product_name # ""
  /\ ~IsNull(form.quantity) /\ Get(form.quantity) >= 1
  /\ ~IsNull(form.cost_price) /\ Get(form.cost_price) >= Cent
  /\ ~IsNull(form.selling_price) /\ Get(form.selling_price) >= Cent

(* ilike compares without regard to case. *)
Lower(name) ==
  CASE name = "Rice" -> "rice"
    [] OTHER -> name

(* The stock rows that .ilike("product_name", name) selects. *)
Matching(name) ==
  {id \in DOMAIN stock : Lower(stock[id].product_name) = Lower(name)}

(* .maybeSingle(): the row when exactly one row is selected; null when none
   is, when several are (an error that handleSubmit does not read) and when
   the call fails (not read either). *)
MaybeSingle(ids, out) ==
  IF out = "ok" /\ Cardinality(ids) = 1
    THEN LET id == CHOOSE i \in ids : TRUE
         IN Some([id |-> id, quantity |-> stock[id].quantity,
                  total_sold |-> stock[id].total_sold])
    ELSE Null

(* InsufficientNever: the availability check is left out. *)
InsufficientNever(stockItem, quantity) == FALSE
(* stockItem.quantity < quantity *)
Insufficient(stockItem, quantity) == stockItem.quantity < quantity

(* NewStockQuantityStored: the sale is taken off the quantity of the stored
   row. *)
NewStockQuantityStored(stockItem, quantity) ==
  stock[stockItem.id].quantity - quantity
(* stockItem.quantity - quantity *)
NewStockQuantity(stockItem, quantity) == stockItem.quantity - quantity

(* ProfitLossSwapped: the cost and the revenue change places. *)
ProfitLossSwapped(revenue, totalCost) == totalCost - revenue
(* revenue - totalCost *)
ProfitLoss(revenue, totalCost) == revenue - totalCost

(* The row of table sales that handleSubmit inserts, as the DECIMAL(10,2)
   columns store it. *)
SaleRow(form) ==
  LET quantity == Get(form.quantity)
      costPrice == Get(form.cost_price)
      sellingPrice == Get(form.selling_price)
      totalCost == quantity * costPrice
      revenue == quantity * sellingPrice
      profitLoss == ProfitLoss(revenue, totalCost)
  IN [product_name |-> form.product_name, quantity |-> quantity,
      cost_price |-> Round2(costPrice), selling_price |-> Round2(sellingPrice),
      total_cost |-> Round2(totalCost), revenue |-> Round2(revenue),
      profit_loss |-> Round2(profitLoss)]

(* SalesPage.fetchSales(): the call is issued. *)
StartFetchSales(s) ==
  /\ fetching' = [fetching EXCEPT ![s] = TRUE]
  /\ loading' = [loading EXCEPT ![s] = TRUE]

(* SalesPage.fetchSales: the select arrives. *)
FetchSalesDone(s, out) ==
  /\ UNCHANGED clicks
  /\ Answer(out)
  /\ currentPage[s] = "sales"
  /\ fetching[s]
  /\ fetching' = [fetching EXCEPT ![s] = FALSE]
  /\ loading' = [loading EXCEPT ![s] = FALSE]
  /\ IF out = "ok"
       THEN /\ salesView' = [salesView EXCEPT ![s] = DOMAIN sales]
            /\ toast' = NoToast
       ELSE /\ toast' = Toast(s, "Error fetching sales", out)
            /\ UNCHANGED salesView
  /\ UNCHANGED <<notSales, showForm, currentPage, stockDb, stockView, restockItem,
                 restockQuantity, stockForm, saleForm, stockLoading,
                 stockFetching, sale>>

(* SalesPage.handleSubmit, to its lookup of the stock item: the user has
   filled the sale form and submits it.  The availability check runs on the
   row the lookup returns.  (The "Insufficient stock" toast's description, the
   number of units available, is not kept.) *)
SalesHandleSubmit(s, form, out) ==
  /\ Click
  /\ currentPage[s] = "sales"
  /\ IsNull(restockItem[s])
  /\ ~loading[s]
  /\ sale[s].pc = "idle"
  /\ saleForm' = [saleForm EXCEPT ![s] = form]
  /\ IF ~SaleValid(form)
       THEN \* setErrors(...); return
            /\ toast' = NoToast
            /\ UNCHANGED <<loading, sale, failures>>
       ELSE LET ids == Matching(form.product_name)
                stockItem == MaybeSingle(ids, out)
            IN /\ Answer(out)
               /\ IF ~IsNull(stockItem)
                    /\ Insufficient(Get(stockItem), Get(form.quantity))
                 THEN /\ toast' = Toast(s, "Insufficient stock", "")
                      /\ UNCHANGED <<loading, sale>>
                 ELSE /\ loading' = [loading EXCEPT ![s] = TRUE]
                      /\ sale' = [sale EXCEPT ![s] =
                           [pc |-> IF IsNull(stockItem) THEN "insert"
                                                        ELSE "deduct",
                            stockItem |-> stockItem,
                            matched |-> Cardinality(ids)]]
                      /\ toast' = NoToast
  /\ UNCHANGED <<notSales, showForm, currentPage, fetching, stockDb, stockView,
                 salesView, restockItem, restockQuantity, stockForm,
                 stockLoading, stockFetching>>

(* SalesPage.handleSubmit: the update that deducts the sale from the stock
   item. *)
SalesDeductStock(s, out) ==
  /\ UNCHANGED clicks
  /\ Answer(out)
  /\ currentPage[s] = "sales"
  /\ sale[s].pc = "deduct"
  /\ LET stockItem == Get(sale[s].stockItem)
         quantity == Get(saleForm[s].quantity)
     IN IF out = "ok"
          THEN /\ stockItem.total_sold + quantity <= MaxSold
               /\ stock' =
                    IF stockItem.id \in DOMAIN stock
                      THEN [stock EXCEPT
                              ![stockItem.id].quantity =
                                 NewStockQuantity(stockItem, quantity),
                              ![stockItem.id].total_sold =
                                 stockItem.total_sold + quantity]
                      ELSE stock
               /\ sale' = [sale EXCEPT ![s].pc = "insert"]
               /\ toast' = NoToast
               /\ UNCHANGED <<loading>>
          ELSE /\ loading' = [loading EXCEPT ![s] = FALSE]
               /\ toast' = Toast(s, "Error updating stock", out)
               /\ sale' = [sale EXCEPT ![s] = IdleSale]
               /\ UNCHANGED stock
  /\ UNCHANGED <<notSales, showForm, currentPage, fetching, stockSeq, sales, saleSeq,
                 stockView, salesView, restockItem, restockQuantity, stockForm,
                 saleForm, stockLoading, stockFetching>>

(* SalesPage.handleSubmit: the insert into sales. *)
SalesInsertSale(s, out) ==
  /\ UNCHANGED clicks
  /\ Answer(out)
  /\ currentPage[s] = "sales"
  /\ sale[s].pc = "insert"
  /\ sale' = [sale EXCEPT ![s] = IdleSale]
  /\ IF out = "ok"
       THEN /\ saleSeq < MaxSales
            /\ saleSeq' = saleSeq + 1
            /\ sales' = (saleSeq + 1 :> SaleRow(saleForm[s])) @@ sales
            /\ toast' = Toast(s, IF IsNull(sale[s].stockItem)
                         THEN "Sale recorded successfully!"
                         ELSE "Sale recorded successfully! Stock updated.", "")
            /\ saleForm' = [saleForm EXCEPT ![s] = EmptySaleForm]
            /\ StartFetchSales(s)
       ELSE /\ loading' = [loading EXCEPT ![s] = FALSE]
            /\ toast' = Toast(s, "Error adding sale", out)
            /\ UNCHANGED <<sales, saleSeq, saleForm, fetching>>
  /\ UNCHANGED <<notSales, showForm, currentPage, stock, stockSeq, stockView, salesView,
                 restockItem, restockQuantity, stockForm, stockLoading,
                 stockFetching>>

(* SalesPage.handleDelete(id), confirmed by the user. *)
SalesHandleDelete(s, id, out) ==
  /\ Click
  /\ Answer(out)
  /\ currentPage[s] = "sales"
  /\ IsNull(restockItem[s])
  /\ ~loading[s]
  /\ id \in salesView[s]
  /\ IF out = "ok"
       THEN /\ sales' = [i \in DOMAIN sales \ {id} |-> sales[i]]
            /\ toast' = Toast(s, "Sale deleted successfully", "")
            /\ StartFetchSales(s)
       ELSE /\ toast' = Toast(s, "Error deleting sale", out)
            /\ UNCHANGED <<sales, loading, fetching>>
  /\ UNCHANGED <<notSales, showForm, currentPage, stock, stockSeq, saleSeq, stockView,
                 salesView, restockItem, restockQuantity, stockForm, saleForm,
                 stockLoading, stockFetching, sale>>

(***************************************************************************)
(* ExpenseTracking.                                                        *)
(***************************************************************************)
(* The expense form: category, description and amount (parseFloat); the date
   is filled in by default.  The amount sits in a <form> with min="0.01"
   step="0.01". *)
EmptyExpenseForm == [category |-> "", description |-> "", amount |-> Null]
ExpenseInputs ==
  {[category |-> "Rent", description |-> "shop", amount |-> Some(150)],
   [category |-> "", description |-> "shop", amount |-> Some(150)]}

(* expenseSchema *)
ExpenseValid(form) ==
  /\ form.category # ""
  /\ form.description # ""
  /\ ~IsNull(form.amount) /\ Get(form.amount) >= Cent

(* fetchExpenses(): the call is issued. *)
StartFetchExpenses(s) ==
  /\ fetching' = [fetching EXCEPT ![s] = TRUE]
  /\ loading' = [loading EXCEPT ![s] = TRUE]

(* fetchExpenses: the select arrives. *)
FetchExpensesDone(s, out) ==
  /\ Answer(out)
  /\ UNCHANGED clicks
  /\ currentPage[s] = "expenses"
  /\ fetching[s]
  /\ fetching' = [fetching EXCEPT ![s] = FALSE]
  /\ loading' = [loading EXCEPT ![s] = FALSE]
  /\ IF out = "ok"
       THEN /\ expensesView' = [expensesView EXCEPT ![s] = DOMAIN expenses]
            /\ toast' = NoToast
       ELSE /\ toast' = Toast(s, "Error fetching expenses", out)
            /\ UNCHANGED expensesView
  /\ UNCHANGED <<notExpenses, currentPage, showForm, expenses, expenseSeq,
                 expenseForm>>

(* The "Add Expense" / "Cancel" button: setShowForm(!showForm). *)
ExpenseToggleForm(s) ==
  /\ Click
  /\ currentPage[s] = "expenses"
  /\ showForm' = [showForm EXCEPT ![s] = ~showForm[s]]
  /\ toast' = NoToast
  /\ UNCHANGED <<notExpenses, currentPage, loading, fetching, failures,
                 expenseVars>>

(* ExpenseTracking.handleSubmit: the user has filled the form and submits
   it. *)
ExpenseHandleSubmit(s, form, out) ==
  /\ Click
  /\ currentPage[s] = "expenses"
  /\ showForm[s]
  /\ ~loading[s]
  /\ IF ~ExpenseValid(form)
       THEN \* setErrors(...); return
            /\ expenseForm' = [expenseForm EXCEPT ![s] = form]
            /\ toast' = NoToast
            /\ UNCHANGED <<expenses, expenseSeq, loading, fetching, showForm,
                           failures>>
       ELSE IF out = "ok"
         THEN /\ Answer(out)
              /\ expenseSeq < MaxExpenses
              /\ expenseSeq' = expenseSeq + 1
              /\ expenses' = (expenseSeq + 1 :>
                                [category |-> form.category,
                                 description |-> form.description,
                                 amount |-> Get(form.amount)])
                             @@ expenses
              /\ toast' = Toast(s, "Expense added successfully!", "")
              /\ expenseForm' = [expenseForm EXCEPT ![s] = EmptyExpenseForm]
              /\ showForm' = [showForm EXCEPT ![s] = FALSE]
              /\ StartFetchExpenses(s)
         ELSE /\ Answer(out)
              /\ toast' = Toast(s, "Error adding expense", out)
              /\ expenseForm' = [expenseForm EXCEPT ![s] = form]
              /\ UNCHANGED <<expenses, expenseSeq, loading, fetching, showForm>>
  /\ UNCHANGED <<notExpenses, currentPage, expensesView>>

(* ExpenseTracking.handleDelete(id), confirmed by the user. *)
ExpenseHandleDelete(s, id, out) ==
  /\ Click
  /\ Answer(out)
  /\ currentPage[s] = "expenses"
  /\ ~loading[s]
  /\ id \in expensesView[s]
  /\ IF out = "ok"
       THEN /\ expenses' = [i \in DOMAIN expenses \ {id} |-> expenses[i]]
            /\ toast' = Toast(s, "Expense deleted successfully", "")
            /\ StartFetchExpenses(s)
       ELSE /\ toast' = Toast(s, "Error deleting expense", out)
            /\ UNCHANGED <<expenses, loading, fetching>>
  /\ UNCHANGED <<notExpenses, currentPage, showForm, expenseSeq, expensesView,
                 expenseForm>>

(***************************************************************************)
(* exportToCsv.                                                            *)
(***************************************************************************)
(* A string is the sequence of its characters. *)
Chars == {"a", ",", "\"", "\n"}
Strings == UNION {[1..n -> Chars] : n \in 0..MaxLen}

(* The column names; every row has a value for each of the first n of them. *)
ColumnKeys == << <<"k">>, <<"m">> >>
Keys(n) == SubSeq(ColumnKeys, 1, n)

(* The lists of rows exportToCsv is given: the empty list, and the lists of
   rows of n columns with at most MaxCells values in all. *)
RowLists ==
  {<<>>} \cup
  UNION {IF r * n <= MaxCells THEN [1..r -> [1..n -> Strings]] ELSE {} :
           r \in 1..MaxCells, n \in 1..Len(ColumnKeys)}

(* parts.join(sep) *)
RECURSIVE Join(_, _)
Join(parts, sep) ==
  IF parts = <<>> THEN <<>>
  ELSE IF Len(parts) = 1 THEN parts[1]
  ELSE parts[1] \o sep \o Join(Tail(parts), sep)

(* stringValue.replace(/"/g, '""') *)
RECURSIVE DoubleQuotes(_)
DoubleQuotes(stringValue) ==
  IF stringValue = <<>> THEN <<>>
  ELSE (IF Head(stringValue) = "\"" THEN <<"\"", "\"">>
                                    ELSE <<Head(stringValue)>>)
       \o DoubleQuotes(Tail(stringValue))

(* stringValue.includes(c) *)
Includes(stringValue, c) == \E i \in 1..Len(stringValue) : stringValue[i] = c

(* The text exportToCsv writes for one value. *)
EscapeValue(stringValue) ==
  IF Includes(stringValue, ",") \/ Includes(stringValue, "\"")
       \/ Includes(stringValue, "\n")
    THEN <<"\"">> \o DoubleQuotes(stringValue) \o <<"\"">>
    ELSE stringValue

(* csvContent: the line of the keys, then one line for each row. *)
CsvContent(keys, rows) ==
  Join(<<Join(keys, <<",">>)>>
         \o [i \in 1..Len(rows) |->
               Join([j \in 1..Len(keys) |-> EscapeValue(rows[i][j])], <<",">>)],
       <<"\n">>)

(* Reading quoted CSV: a comma ends a field and a line break ends a record,
   unless they stand between double quotes; inside the quotes two double
   quotes are one; a line break at the end of the text ends the last record
   and starts no other.  fresh: nothing of the current record has been read. *)
RECURSIVE ParseFrom(_, _, _, _, _, _)
ParseFrom(text, inQuotes, fresh, field, record, records) ==
  IF text = <<>>
    THEN IF fresh THEN records ELSE Append(records, Append(record, field))
  ELSE LET c == Head(text)
           rest == Tail(text)
       IN IF inQuotes
            THEN IF c = "\""
                   THEN IF rest # <<>> /\ Head(rest) = "\""
                          THEN ParseFrom(Tail(rest), TRUE, FALSE,
                                         Append(field, "\""), record, records)
                          ELSE ParseFrom(rest, FALSE, FALSE, field, record,
                                         records)
                   ELSE ParseFrom(rest, TRUE, FALSE, Append(field, c), record,
                                  records)
          ELSE IF c = "\""
            THEN ParseFrom(rest, TRUE, FALSE, field, record, records)
          ELSE IF c = ","
            THEN ParseFrom(rest, FALSE, FALSE, <<>>, Append(record, field),
                           records)
          ELSE IF c = "\n"
            THEN ParseFrom(rest, FALSE, TRUE, <<>>, <<>>,
                           Append(records, Append(record, field)))
          ELSE ParseFrom(rest, FALSE, FALSE, Append(field, c), record, records)
ParseCsv(text) == ParseFrom(text, FALSE, TRUE, <<>>, <<>>, <<>>)

(* exportToCsv(filename, rows): nothing is written for an empty list. *)
ExportToCsv ==
  /\ ~IsNull(csvRows)
  /\ IsNull(csvContent)
  /\ Get(csvRows) # <<>>
  /\ csvContent' =
       Some(CsvContent(Keys(Len(Get(csvRows)[1])), Get(csvRows)))
  /\ UNCHANGED <<shared, toast, failures, clicks, debtDb, debtUi, stockDb,
                 stockUi, expenseVars, settingsVars, rlsVars, edgeVars, csvRows,
                 csvParsed>>

(* The text is read back. *)
ReadCsv ==
  /\ ~IsNull(csvContent)
  /\ IsNull(csvParsed)
  /\ csvParsed' = Some(ParseCsv(Get(csvContent)))
  /\ UNCHANGED <<shared, toast, failures, clicks, debtDb, debtUi, stockDb,
                 stockUi, expenseVars, settingsVars, rlsVars, edgeVars, csvRows,
                 csvContent>>

(***************************************************************************)
(* SettingsPage.                                                           *)
(***************************************************************************)
(* The sessions are signed in as one user. *)
UserId(s) == 1

(* useState({ ..., profit_margin_goal: 20 }), also the column's default. *)
DefaultGoal == 20

(* The "Profit Margin Goal (%)" input: parseFloat(value) || 0, so clearing
   the input gives 0. *)
GoalInputs == {0, 25}

IdleSave == [pc |-> "idle"]

(* The message of the error the unique constraint on user_id raises. *)
DuplicateKey == "duplicate key value violates unique constraint"

(* The rows of user_settings of a user. *)
SettingsOf(user) == {r \in BagToSet(user_settings) : r.user_id = user}

(* .single(): the row when exactly one row is selected, null otherwise (an
   error that is read only by fetchSettings) and when the call fails. *)
Single(user, out) ==
  IF out = "ok" /\ Cardinality(SettingsOf(user)) = 1
       /\ \A r \in SettingsOf(user) : CopiesIn(r, user_settings) = 1
    THEN Some(CHOOSE r \in SettingsOf(user) : TRUE)
    ELSE Null

(* UniqueNever: the table has no unique constraint. *)
UniqueNever(user) == FALSE
(* user_id UUID NOT NULL UNIQUE: a second row of the user is refused. *)
UniqueViolation(user) == SettingsOf(user) # {}

(* fetchSettings: the select arrives.  No row (PGRST116) is no error to
   show. *)
FetchSettingsDone(s, out) ==
  /\ UNCHANGED clicks
  /\ Answer(out)
  /\ currentPage[s] = "settings"
  /\ fetching[s]
  /\ fetching' = [fetching EXCEPT ![s] = FALSE]
  /\ LET data == Single(UserId(s), out)
     IN IF ~IsNull(data)
          THEN /\ settings' = [settings EXCEPT ![s] =
                                 Get(data).profit_margin_goal]
               /\ toast' = NoToast
          ELSE /\ toast' = IF out = "ok" THEN NoToast
                           ELSE Toast(s, "Error loading settings", out)
               /\ UNCHANGED settings
  /\ UNCHANGED <<currentPage, loading, showForm, debtDb, debtUi, stockDb,
                 stockUi, expenseVars, csvVars, rlsVars, edgeVars, user_settings, save,
                 profitMarginGoal, salesData, analytics>>

(* handleSave, to its lookup of the user's row: the user has typed the goal
   and clicks "Save Settings".  (Theme and currency are always selected.) *)
SettingsHandleSave(s, goal, out) ==
  /\ Click
  /\ Answer(out)
  /\ currentPage[s] = "settings"
  /\ ~fetching[s]
  /\ ~loading[s]
  /\ save[s].pc = "idle"
  /\ settings' = [settings EXCEPT ![s] = goal]
  /\ loading' = [loading EXCEPT ![s] = TRUE]
  /\ LET existingSettings == Single(UserId(s), out)
     IN save' = [save EXCEPT ![s].pc =
                   IF ~IsNull(existingSettings) THEN "update" ELSE "insert"]
  /\ toast' = NoToast
  /\ UNCHANGED <<currentPage, fetching, showForm, debtDb, debtUi, stockDb,
                 stockUi, expenseVars, csvVars, rlsVars, edgeVars, user_settings,
                 profitMarginGoal, salesData, analytics>>

(* handleSave ends: the toast of the update or insert. *)
SettingsSaveEnd(s, answer) ==
  /\ loading' = [loading EXCEPT ![s] = FALSE]
  /\ save' = [save EXCEPT ![s] = IdleSave]
  /\ toast' = IF answer = "ok"
                THEN Toast(s, "Settings saved successfully!", "")
                ELSE Toast(s, "Error saving settings", answer)

(* handleSave: the update of the user's row. *)
SettingsUpdate(s, out) ==
  /\ UNCHANGED clicks
  /\ Answer(out)
  /\ currentPage[s] = "settings"
  /\ save[s].pc = "update"
  /\ IF out = "ok"
       THEN user_settings' =
              BagOfAll(LAMBDA r : IF r.user_id = UserId(s)
                                    THEN [r EXCEPT !.profit_margin_goal =
                                            settings[s]]
                                    ELSE r,
                       user_settings)
       ELSE UNCHANGED user_settings
  /\ SettingsSaveEnd(s, out)
  /\ UNCHANGED <<currentPage, fetching, showForm, debtDb, debtUi, stockDb,
                 stockUi, expenseVars, csvVars, rlsVars, edgeVars, settings,
                 profitMarginGoal, salesData, analytics>>

(* handleSave: the insert of a row for the user. *)
SettingsInsert(s, out) ==
  /\ UNCHANGED clicks
  /\ Answer(out)
  /\ currentPage[s] = "settings"
  /\ save[s].pc = "insert"
  /\ LET answer == IF out = "ok" /\ UniqueViolation(UserId(s))
                     THEN DuplicateKey ELSE out
     IN /\ IF answer = "ok"
             THEN user_settings' =
                    InsertRow(user_settings,
                              [user_id |-> UserId(s),
                               profit_margin_goal |-> settings[s]])
             ELSE UNCHANGED user_settings
        /\ SettingsSaveEnd(s, answer)
  /\ UNCHANGED <<currentPage, fetching, showForm, debtDb, debtUi, stockDb,
                 stockUi, expenseVars, csvVars, rlsVars, edgeVars, settings,
                 profitMarginGoal, salesData, analytics>>

(***************************************************************************)
(* AnalyticsDashboard.                                                     *)
(***************************************************************************)
(* salesData = []: its totals. *)
NoSalesData == [revenue |-> 0, profit |-> 0]
IdleAnalytics == [pc |-> "idle", sales |-> Null]

(* The totals of the rows of sales (every sale is of today, so all of them
   are of the last 30 days and of one date). *)
RECURSIVE SalesTotals(_)
SalesTotals(ids) ==
  IF ids = {} THEN NoSalesData
  ELSE LET id == CHOOSE i \in ids : TRUE
           rest == SalesTotals(ids \ {id})
       IN [revenue |-> rest.revenue + sales[id].revenue,
           profit |-> rest.profit + sales[id].profit_loss]

(* fetchAnalytics: the select of the sales of the last 30 days arrives (its
   error is not read). *)
FetchAnalyticsSales(s, out) ==
  /\ UNCHANGED clicks
  /\ Answer(out)
  /\ currentPage[s] = "analytics"
  /\ analytics[s].pc = "sales"
  /\ analytics' = [analytics EXCEPT ![s] =
       [pc |-> "settings",
        sales |-> IF out = "ok" THEN Some(SalesTotals(DOMAIN sales))
                                ELSE Null]]
  /\ toast' = NoToast
  /\ UNCHANGED <<shared, debtDb, debtUi, stockDb, stockUi, expenseVars,
                 csvVars, rlsVars, edgeVars, user_settings, settings, save,
                 profitMarginGoal, salesData>>

(* userSettings?.profit_margin_goal is truthy *)
Truthy(goal) == goal # 0

(* fetchAnalytics: the select of the user's settings arrives
   (.maybeSingle(), its error is not read), then the state is set. *)
FetchAnalyticsSettings(s, out) ==
  /\ UNCHANGED clicks
  /\ Answer(out)
  /\ currentPage[s] = "analytics"
  /\ analytics[s].pc = "settings"
  /\ LET userSettings == Single(UserId(s), out)
     IN profitMarginGoal' =
          IF ~IsNull(userSettings) /\ Truthy(Get(userSettings).profit_margin_goal)
            THEN [profitMarginGoal EXCEPT ![s] =
                    Get(userSettings).profit_margin_goal]
            ELSE profitMarginGoal
  /\ salesData' = IF IsNull(analytics[s].sales) THEN salesData
                  ELSE [salesData EXCEPT ![s] = Get(analytics[s].sales)]
  /\ analytics' = [analytics EXCEPT ![s] = IdleAnalytics]
  /\ loading' = [loading EXCEPT ![s] = FALSE]
  /\ toast' = NoToast
  /\ UNCHANGED <<currentPage, fetching, showForm, debtDb, debtUi, stockDb,
                 stockUi, expenseVars, csvVars, rlsVars, edgeVars, user_settings,
                 settings, save>>

(* isMarginBelowGoal, with currentProfitMargin =
   (totalProfit / totalRevenue) * 100 compared without the division. *)
IsMarginBelowGoal(s) ==
  LET totalRevenue == salesData[s].revenue
      totalProfit == salesData[s].profit
  IN totalRevenue > 0 /\ totalProfit * 100 < profitMarginGoal[s] * totalRevenue

(* The "Profit Margin Alert" is on the screen of session s. *)
AlertShown(s) ==
  currentPage[s] = "analytics" /\ ~loading[s] /\ IsMarginBelowGoal(s)

(***************************************************************************)
(* Dashboard and Navigation.                                               *)
(***************************************************************************)
(* No handler and no fetch of session s is between two backend calls. *)
Quiescent(s) ==
  /\ create[s].pc = "idle" /\ pay[s].pc = "idle" /\ sale[s].pc = "idle"
  /\ save[s].pc = "idle" /\ analytics[s].pc = "idle"
  /\ ~fetching[s] /\ ~stockFetching[s] /\ ~loading[s] /\ ~stockLoading[s]

(* setCurrentPage(p), with the page idle: the page shown is unmounted and its
   state is lost; page p is mounted with its initial state and its fetches
   are issued. *)
Navigate(s, p) ==
  /\ Click
  /\ UNCHANGED failures
  /\ currentPage[s] \notin {"none", p}
  /\ Quiescent(s)
  /\ currentPage' = [currentPage EXCEPT ![s] = p]
  /\ loading' = [loading EXCEPT ![s] = p # "settings"]
  /\ fetching' = [fetching EXCEPT ![s] = p # "analytics"]
  /\ stockLoading' = [stockLoading EXCEPT ![s] = p = "sales"]
  /\ stockFetching' = [stockFetching EXCEPT ![s] = p = "sales"]
  /\ analytics' = [analytics EXCEPT ![s] =
       IF p = "analytics" THEN [pc |-> "sales", sales |-> Null]
                          ELSE IdleAnalytics]
  /\ showForm' = [showForm EXCEPT ![s] = FALSE]
  /\ debtorsView' = [debtorsView EXCEPT ![s] = <<>>]
  /\ selectedDebtor' = [selectedDebtor EXCEPT ![s] = Null]
  /\ isPaymentModalOpen' = [isPaymentModalOpen EXCEPT ![s] = FALSE]
  /\ amount' = [amount EXCEPT ![s] = Null]
  /\ formData' = [formData EXCEPT ![s] = EmptyForm]
  /\ stockView' = [stockView EXCEPT ![s] = <<>>]
  /\ salesView' = [salesView EXCEPT ![s] = {}]
  /\ restockItem' = [restockItem EXCEPT ![s] = Null]
  /\ restockQuantity' = [restockQuantity EXCEPT ![s] = Null]
  /\ stockForm' = [stockForm EXCEPT ![s] = EmptyStockForm]
  /\ saleForm' = [saleForm EXCEPT ![s] = EmptySaleForm]
  /\ expensesView' = [expensesView EXCEPT ![s] = {}]
  /\ expenseForm' = [expenseForm EXCEPT ![s] = EmptyExpenseForm]
  /\ settings' = [settings EXCEPT ![s] = DefaultGoal]
  /\ profitMarginGoal' = [profitMarginGoal EXCEPT ![s] = DefaultGoal]
  /\ salesData' = [salesData EXCEPT ![s] = NoSalesData]
  /\ toast' = NoToast
  /\ UNCHANGED <<debtDb, stockDb, expenses, expenseSeq, user_settings, pay,
                 create, sale, save, csvVars, rlsVars, edgeVars>>

(***************************************************************************)
(* Row-level security: the policies of the tables, and the statements an   *)
(* authenticated user can send to the backend.  A row is kept as its id,   *)
(* the column its policy reads (user_id, or debtor_id for debt_items and   *)
(* payments) and one column of data.                                       *)
(***************************************************************************)
Users == 1..NumUsers
OwnedTables == {"stock", "sales", "debtors", "expenses", "user_settings"}
ChildTables == {"debt_items", "payments"}
TableNames == OwnedTables \cup ChildTables
DataValues == {"x", "y"}
RowIds == 1..MaxRows

NoTables == [t \in TableNames |-> {}]
(* The statement just answered: who sent it, and the rows it returned. *)
NoSelect == [user |-> 0, table |-> "", rows |-> {}]
Statement(u, t, rows) == [user |-> u, table |-> t, rows |-> rows]

(* A row of table t that refers to ref (a user, or a debtor). *)
TableRow(t, id, ref, d) ==
  IF t \in ChildTables THEN [id |-> id, debtor_id |-> ref, data |-> d]
                       ELSE [id |-> id, user_id |-> ref, data |-> d]

(* SELECT id FROM public.debtors WHERE user_id = auth.uid() *)
OwnDebtors(tabs, u) == {r.id : r \in {x \in tabs["debtors"] : x.user_id = u}}

(* OwnerPolicyOpen: the policy lets every user through. *)
OwnerPolicyOpen(u, row) == TRUE
(* USING / WITH CHECK (auth.uid() = user_id) *)
OwnerPolicy(u, row) == u = row.user_id

(* USING / WITH CHECK (debtor_id IN (SELECT id FROM public.debtors WHERE
   user_id = auth.uid())) *)
DebtorPolicy(tabs, u, row) == row.debtor_id \in OwnDebtors(tabs, u)

(* Row-level security is enabled on every table; user_settings has no policy
   for DELETE, so no row of it passes. *)
HasPolicy(t, command) == ~(t = "user_settings" /\ command = "DELETE")

(* A row of table t passes the policy of the command for user u.  An UPDATE
   policy that gives USING only applies it to the new row as well. *)
Passes(tabs, t, command, u, row) ==
  /\ HasPolicy(t, command)
  /\ IF t \in ChildTables THEN DebtorPolicy(tabs, u, row)
                          ELSE OwnerPolicy(u, row)

(* The constraints of the tables: debtor_id REFERENCES debtors(id), and
   user_settings.user_id UNIQUE. *)
Constraints(tabs, t, row) ==
  /\ t \in ChildTables => \E d \in tabs["debtors"] : d.id = row.debtor_id
  /\ t = "user_settings" =>
       \A r \in tabs[t] : r.id # row.id => r.user_id # row.user_id

TotalRows == SumSeq([i \in 1..7 |->
  Cardinality(tables[<<"stock", "sales", "debtors", "expenses",
                       "user_settings", "debt_items", "payments">>[i]])])

(* select * from t, sent as user u. *)
RlsSelect(u, t) ==
  /\ selected' = Statement(u, t, {r \in tables[t] :
                                    Passes(tables, t, "SELECT", u, r)})
  /\ UNCHANGED <<tables, notRls>>

(* insert into t of a row that refers to ref, sent as user u. *)
RlsInsert(u, t, ref, d) ==
  /\ TotalRows < MaxRows
  /\ LET id == CHOOSE i \in RowIds : \A r \in tables[t] : r.id # i
         row == TableRow(t, id, ref, d)
     IN tables' =
          IF Passes(tables, t, "INSERT", u, row) /\ Constraints(tables, t, row)
            THEN [tables EXCEPT ![t] = @ \cup {row}]
            ELSE tables
  /\ selected' = Statement(u, "", {})
  /\ UNCHANGED notRls

(* update t set (ref, d) where id = id, sent as user u. *)
RlsUpdate(u, t, id, ref, d) ==
  /\ LET old == {r \in tables[t] : r.id = id /\ Passes(tables, t, "UPDATE", u, r)}
         row == TableRow(t, id, ref, d)
     IN tables' =
          IF old # {} /\ Passes(tables, t, "UPDATE", u, row)
               /\ Constraints(tables, t, row)
            THEN [tables EXCEPT ![t] = (@ \ old) \cup {row}]
            ELSE tables
  /\ selected' = Statement(u, "", {})
  /\ UNCHANGED notRls

(* delete from t where id = id, sent as user u; the rows of a deleted debtor
   in debt_items and payments go with it (ON DELETE CASCADE). *)
RlsDelete(u, t, id) ==
  /\ LET old == {r \in tables[t] : r.id = id /\ Passes(tables, t, "DELETE", u, r)}
     IN tables' =
          IF old = {} THEN tables
          ELSE [x \in TableNames |->
                  IF x = t THEN tables[x] \ old
                  ELSE IF t = "debtors" /\ x \in ChildTables
                    THEN {r \in tables[x] : r.debtor_id # id}
                  ELSE tables[x]]
  /\ selected' = Statement(u, "", {})
  /\ UNCHANGED notRls

(***************************************************************************)
(* Dashboard: the page at "/", and handleLogout of its Navigation.         *)
(***************************************************************************)
(* navItems: the pages of the Dashboard. *)
NavItems == {"analytics", "sales", "expenses", "debt", "settings"}
(* The sessions the auth client can hold: none, or the session of a user. *)
AuthSessions == {Null} \cup {Some(u) : u \in Users}
NoEvent == [from |-> "", session |-> Null]

(* The Dashboard is mounted while the auth client holds session: user null,
   loading true, currentPage "analytics"; getSession has been called and the
   listener is subscribed.  obtained: a session has been delivered to this
   Dashboard; event: what was delivered last. *)
MountDashboard(session) ==
  [route |-> "/", session |-> session, getSession |-> "pending",
   user |-> Null, loading |-> TRUE, currentPage |-> "analytics",
   obtained |-> FALSE, event |-> NoEvent, logout |-> "idle"]
(* No Dashboard is mounted. *)
NoDashboard == [MountDashboard(Null) EXCEPT !.route = ""]

(* RendersPagesUnlessNoUser: the check of loading is left out. *)
RendersPagesUnlessNoUser(d) == ~IsNull(d.user)
(* if (loading) return Loading...; if (!user) return null; return the pages *)
RendersPages(d) == ~d.loading /\ ~IsNull(d.user)
(* The page component on screen, "none" when there is none. *)
PageRendered(d) ==
  IF d.route = "/" /\ RendersPages(d) THEN d.currentPage ELSE "none"

DashboardUnchanged ==
  UNCHANGED <<shared, failures, clicks, debtDb, debtUi, stockDb, stockUi,
              expenseVars, csvVars, settingsVars, rlsVars, job, comparison>>

(* checkUser after its await: getSession resolves with the session the auth
   client holds.  On a Dashboard that has been left, setUser and setLoading
   change nothing. *)
DashboardCheckUser ==
  /\ dashboard.route \in {"/", "/auth"}
  /\ dashboard.getSession = "pending"
  /\ dashboard' =
       LET d == [dashboard EXCEPT
                   !.getSession = "resolved",
                   !.event = [from |-> "getSession",
                              session |-> dashboard.session]]
       IN IF IsNull(dashboard.session)
            THEN [d EXCEPT !.route = "/auth"]
            ELSE IF dashboard.route = "/"
                   THEN [d EXCEPT !.user = dashboard.session,
                                  !.loading = FALSE, !.obtained = TRUE]
                   ELSE d
  /\ UNCHANGED toast
  /\ DashboardUnchanged

(* The listener of onAuthStateChange is called with session (a sign-in, a
   refresh, a sign-out, in this tab or another); it is subscribed while the
   Dashboard is mounted. *)
DashboardAuthStateChange(session) ==
  /\ dashboard.route = "/"
  /\ dashboard' =
       LET d == [dashboard EXCEPT
                   !.session = session,
                   !.event = [from |-> "onAuthStateChange",
                              session |-> session]]
       IN IF IsNull(session)
            THEN [d EXCEPT !.route = "/auth"]
            ELSE [d EXCEPT !.user = session, !.obtained = TRUE]
  /\ UNCHANGED toast
  /\ DashboardUnchanged

(* Navigation: setCurrentPage(item.id) *)
SetCurrentPage(p) ==
  /\ PageRendered(dashboard) \notin {"none", p}
  /\ dashboard' = [dashboard EXCEPT !.currentPage = p]
  /\ UNCHANGED toast
  /\ DashboardUnchanged

(* Navigation.handleLogout up to its await: supabase.auth.signOut() *)
HandleLogout ==
  /\ PageRendered(dashboard) # "none"
  /\ dashboard.logout = "idle"
  /\ dashboard' = [dashboard EXCEPT !.session = Null, !.logout = "signOut"]
  /\ UNCHANGED toast
  /\ DashboardUnchanged

(* handleLogout after its await: the toast and navigate("/auth") *)
HandleLogoutEnd ==
  /\ dashboard.logout = "signOut"
  /\ dashboard' = [dashboard EXCEPT !.logout = "idle", !.route = "/auth"]
  /\ toast' = Toast(1, "Logged out successfully", "")
  /\ DashboardUnchanged

(* The browser goes from "/auth" to "/" while the auth client holds session:
   a new Dashboard is mounted. *)
DashboardMount(session) ==
  /\ dashboard.route = "/auth"
  /\ dashboard.logout = "idle"
  /\ dashboard.getSession = "resolved"
  /\ dashboard' = MountDashboard(session)
  /\ UNCHANGED toast
  /\ DashboardUnchanged

(***************************************************************************)
(* AnalyticsDashboard: the comparison of this month with last month.       *)
(***************************************************************************)
(* The amounts compared (revenue, profit, expenses, net profit of a month):
   whole cents up to MaxChange, a loss included. *)
ComparisonAmounts == {k * Cent : k \in (0 - MaxChange)..MaxChange}

(* A percentage is kept as the quotient num / den the code computes: the
   division of two numbers of this size is zero only when num is, and has the
   sign of the quotient. *)
IsPositive(q) == (q.num > 0 /\ q.den > 0) \/ (q.num < 0 /\ q.den < 0)
IsNegative(q) == (q.num > 0 /\ q.den < 0) \/ (q.num < 0 /\ q.den > 0)
Abs(n) == IF n < 0 THEN 0 - n ELSE n
(* percent.toFixed(1): the sign, and the tenths of the magnitude rounded to
   the nearest. *)
ToFixed1(q) ==
  [negative |-> IsNegative(q),
   tenths |-> (2 * 10 * Abs(q.num) + Abs(q.den)) \div (2 * Abs(q.den))]

getChangePercent(current, previous) ==
  IF previous = 0
    THEN [num |-> IF current > 0 THEN 100 ELSE 0, den |-> 1]
    ELSE [num |-> (current - previous) * 100, den |-> previous]

getChangeClass(current, previous) ==
  LET change == current - previous
  IN IF change > 0 THEN "trend-up"
     ELSE IF change < 0 THEN "trend-down"
     ELSE ""

(* The text: the arrow and the percentage, or "No change". *)
getChangeText(current, previous) ==
  LET percent == getChangePercent(current, previous)
  IN IF IsPositive(percent)
       THEN [arrow |-> "up", percent |-> ToFixed1(percent)]
     ELSE IF IsNegative(percent)
       THEN [arrow |-> "down",
             percent |-> [ToFixed1(percent) EXCEPT !.negative = FALSE]]
     ELSE [arrow |-> "No change", percent |-> Null]

(* The element: the icon and the percentage, or "No change". *)
ComparisonIndicator(current, previous) ==
  LET percent == getChangePercent(current, previous)
  IN IF IsPositive(percent)
       THEN [icon |-> "TrendingUp", percent |-> ToFixed1(percent)]
     ELSE IF IsNegative(percent)
       THEN [icon |-> "TrendingDown", percent |-> ToFixed1(percent)]
     ELSE [icon |-> "Minus", percent |-> Null]

(* A comparison of current with previous; nothing is shown yet. *)
Comparison(current, previous) ==
  [current |-> current, previous |-> previous, indicator |-> Null,
   class |-> Null, text |-> Null]
(* No comparison is looked at. *)
NoComparison == [pc |-> "none"]

(* The card of the comparison is rendered. *)
RenderComparison ==
  /\ comparison # NoComparison
  /\ IsNull(comparison.indicator)
  /\ comparison' =
       [comparison EXCEPT
          !.indicator = Some(ComparisonIndicator(comparison.current,
                                                 comparison.previous))]
  /\ UNCHANGED <<shared, toast, failures, clicks, debtDb, debtUi, stockDb,
                 stockUi, expenseVars, csvVars, settingsVars, rlsVars, job,
                 dashboard>>

(* The report is written: the class and the text of the comparison. *)
ReportComparison ==
  /\ comparison # NoComparison
  /\ IsNull(comparison.text)
  /\ comparison' =
       [comparison EXCEPT
          !.class = Some(getChangeClass(comparison.current,
                                        comparison.previous)),
          !.text = Some(getChangeText(comparison.current,
                                      comparison.previous))]
  /\ UNCHANGED <<shared, toast, failures, clicks, debtDb, debtUi, stockDb,
                 stockUi, expenseVars, csvVars, settingsVars, rlsVars, job,
                 dashboard>>


(***************************************************************************)
(* send-weekly-reminders: the handler of the edge function.  It reads the  *)
(* table debtors with the service role and sends one email per debtor.     *)
(***************************************************************************)
(* The rows of debtors the job can meet, as the columns it reads: createDebtor
   stores customer_email as the trimmed text or null, never as the empty text;
   a pending row can hold current_balance 0 (the status is computed before the
   column rounds the balance). *)
ReminderDebtors ==
  {[status |-> "pending", current_balance |-> 10,
    customer_email |-> Some("ada@example.com")],
   [status |-> "pending", current_balance |-> 10, customer_email |-> Null],
   [status |-> "pending", current_balance |-> 0,
    customer_email |-> Some("ada@example.com")],
   [status |-> "paid", current_balance |-> 0,
    customer_email |-> Some("ada@example.com")]}

RECURSIVE TablesOfLen(_)
TablesOfLen(n) ==
  IF n = 0 THEN {<<>>}
  ELSE {Append(rows, r) : rows \in TablesOfLen(n - 1), r \in ReminderDebtors}
(* The contents of table debtors: up to MaxReminders rows. *)
ReminderTables == UNION {TablesOfLen(n) : n \in 0..MaxReminders}

(* What a send can come to: response.ok; a response that is not ok; fetch (or
   response.json()) throws. *)
SendOutcomes == {"ok", "not ok", "throws"}

NoResults == [total |-> 0, sent |-> 0, failed |-> 0, errors |-> <<>>]
(* The handler has not been called; table holds the rows of debtors. *)
NoJob(table) ==
  [pc |-> "idle", table |-> table, debtors |-> <<>>, index |-> 1,
   results |-> NoResults, attempts |-> <<>>, status |-> 0]

(* .eq("status", "pending").gt("current_balance", 0)
   .not("customer_email", "is", null) *)
RECURSIVE PendingWithEmail(_)
PendingWithEmail(rows) ==
  IF rows = <<>> THEN <<>>
  ELSE LET r == Head(rows)
           rest == PendingWithEmail(Tail(rows))
       IN IF r.status = "pending" /\ r.current_balance > 0
               /\ ~IsNull(r.customer_email)
            THEN <<r>> \o rest
            ELSE rest

(* SendFailedUncounted: a failed send is not counted. *)
SendFailedUncounted(results, email) == results
(* results.failed++; results.errors.push(...) *)
SendFailed(results, email) ==
  [results EXCEPT !.failed = @ + 1, !.errors = Append(@, email)]
(* results.sent++ *)
SendOk(results) == [results EXCEPT !.sent = @ + 1]

(* The handler is called: RESEND_API_KEY is configured or not; the query of
   the debtors answers out. *)
ReminderStart(configured, out) ==
  /\ job.pc = "idle"
  /\ job' =
       IF ~configured \/ out # "ok"
         THEN \* throw: the response has status 500
              [job EXCEPT !.pc = "done", !.status = 500]
         ELSE LET found == PendingWithEmail(job.table)
              IN [job EXCEPT !.pc = "loop", !.debtors = found,
                             !.results = [NoResults EXCEPT !.total = Len(found)]]
  /\ UNCHANGED <<shared, toast, failures, clicks, debtDb, debtUi, stockDb,
                 stockUi, expenseVars, csvVars, settingsVars, rlsVars,
                 dashboard, comparison>>

(* One turn of the loop over the debtors: the email of the debtor at index is
   sent, and the send comes to send. *)
ReminderSend(send) ==
  /\ job.pc = "loop"
  /\ job.index <= Len(job.debtors)
  /\ LET debtor == job.debtors[job.index]
     IN job' =
          IF IsNull(debtor.customer_email) \/ Get(debtor.customer_email) = ""
            THEN \* if (!debtor.customer_email) continue
                 [job EXCEPT !.index = @ + 1]
            ELSE [job EXCEPT
                    !.index = @ + 1,
                    !.attempts = Append(@, [debtor |-> job.index,
                                            outcome |-> send]),
                    !.results =
                       IF send = "ok" THEN SendOk(@)
                       ELSE SendFailed(@, Get(debtor.customer_email))]
  /\ UNCHANGED <<shared, toast, failures, clicks, debtDb, debtUi, stockDb,
                 stockUi, expenseVars, csvVars, settingsVars, rlsVars,
                 dashboard, comparison>>

(* The loop has ended: the response { success: true, results }, status 200. *)
ReminderDone ==
  /\ job.pc = "loop"
  /\ job.index > Len(job.debtors)
  /\ job' = [job EXCEPT !.pc = "done", !.status = 200]
  /\ UNCHANGED <<shared, toast, failures, clicks, debtDb, debtUi, stockDb,
                 stockUi, expenseVars, csvVars, settingsVars, rlsVars,
                 dashboard, comparison>>

(***************************************************************************)
(* Specifications.                                                         *)
(***************************************************************************)
(* The sessions in S have opened page p on an empty database; the page's
   first fetch is in flight.  The users perform n operations (NoLimit: any
   number). *)
InitApp(S, p, n) ==
  /\ currentPage = [s \in Sessions |-> IF s \in S THEN p ELSE "none"]
  /\ debtors = <<>>
  /\ debtorSeq = 0
  /\ debt_items = NoRows
  /\ payments = NoRows
  /\ debtorsView = [s \in Sessions |-> <<>>]
  /\ selectedDebtor = [s \in Sessions |-> Null]
  /\ isPaymentModalOpen = [s \in Sessions |-> FALSE]
  /\ amount = [s \in Sessions |-> Null]
  /\ formData = [s \in Sessions |-> EmptyForm]
  /\ loading = [s \in Sessions |-> s \in S /\ p # "settings"]
  /\ fetching = [s \in Sessions |-> s \in S /\ p # "analytics"]
  /\ pay = [s \in Sessions |-> IdlePay]
  /\ create = [s \in Sessions |-> IdleCreate]
  /\ toast = NoToast
  /\ showForm = [s \in Sessions |-> FALSE]
  /\ failures = 0
  /\ clicks = n
  /\ stock = <<>>
  /\ stockSeq = 0
  /\ sales = <<>>
  /\ saleSeq = 0
  /\ stockView = [s \in Sessions |-> <<>>]
  /\ salesView = [s \in Sessions |-> {}]
  /\ restockItem = [s \in Sessions |-> Null]
  /\ restockQuantity = [s \in Sessions |-> Null]
  /\ stockForm = [s \in Sessions |-> EmptyStockForm]
  /\ saleForm = [s \in Sessions |-> EmptySaleForm]
  /\ stockLoading = [s \in Sessions |-> s \in S /\ p = "sales"]
  /\ stockFetching = [s \in Sessions |-> s \in S /\ p = "sales"]
  /\ sale = [s \in Sessions |-> IdleSale]
  /\ expenses = <<>>
  /\ expenseSeq = 0
  /\ expensesView = [s \in Sessions |-> {}]
  /\ expenseForm = [s \in Sessions |-> EmptyExpenseForm]
  /\ user_settings = NoRows
  /\ settings = [s \in Sessions |-> DefaultGoal]
  /\ save = [s \in Sessions |-> IdleSave]
  /\ profitMarginGoal = [s \in Sessions |-> DefaultGoal]
  /\ salesData = [s \in Sessions |-> NoSalesData]
  /\ analytics = [s \in Sessions |->
       IF s \in S /\ p = "analytics" THEN [pc |-> "sales", sales |-> Null]
                                     ELSE IdleAnalytics]
  /\ tables = NoTables
  /\ selected = NoSelect
  /\ csvContent = Null
  /\ csvParsed = Null

(* No run of the reminder job, no Dashboard and no comparison are looked
   at. *)
InitPage(S, p, n) ==
  /\ InitApp(S, p, n)
  /\ csvRows = Null
  /\ job = NoJob(<<>>)
  /\ dashboard = NoDashboard
  /\ comparison = NoComparison

(* The steps of the DebtPage of some session, the backend answering from O. *)
NextDebtWith(O, IT, CN, IP, PA) ==
  \E s \in Sessions :
    \/ \E out \in O : FetchDebtorsDone(s, out)
    \/ \E it \in IT : AddItemToBundle(s, it[1], it[2])
    \/ \E i \in 1..MaxItems : RemoveItemFromBundle(s, i)
    \/ \E n \in CN, p \in IP, out \in O : CreateDebtor(s, n, p, out)
    \/ \E out \in O : CreateDebtorItems(s, out)
    \/ \E out \in O : CreateDebtorPayment(s, out)
    \/ \E id \in 1..MaxDebtors, out \in O : DeleteDebtor(s, id, out)
    \/ \E id \in 1..MaxDebtors : HandlePayment(s, id)
    \/ ClosePaymentModal(s)
    \/ \E a \in PA, out \in O : PaySubmit(s, a, out)
    \/ \E out \in O : PayUpdate(s, out)

NextDebt(O) ==
  NextDebtWith(O, ItemInputs, CustomerNames, InitialPayments, PaymentAmounts)

(* The steps of the SalesPage of some session: the backend answers from O,
   the add-stock form is filled from SF, the sale form from LF and the restock
   dialog from RQ. *)
NextSalesWith(O, SF, LF, RQ) ==
  \E s \in Sessions :
    \/ \E out \in O : FetchStockDone(s, out)
    \/ StockToggleForm(s)
    \/ \E f \in SF, out \in O : StockHandleSubmit(s, f, out)
    \/ \E id \in 1..MaxStock, out \in O : StockHandleDelete(s, id, out)
    \/ \E id \in 1..MaxStock : OpenRestock(s, id)
    \/ CloseRestock(s)
    \/ \E q \in RQ, out \in O : HandleRestock(s, q, out)
    \/ \E out \in O : FetchSalesDone(s, out)
    \/ \E f \in LF, out \in O : SalesHandleSubmit(s, f, out)
    \/ \E out \in O : SalesDeductStock(s, out)
    \/ \E out \in O : SalesInsertSale(s, out)
    \/ \E id \in 1..MaxSales, out \in O : SalesHandleDelete(s, id, out)

NextSales(O) == NextSalesWith(O, StockInputs, SaleInputs, RestockInputs)

(* One session on the SalesPage; backend calls may fail. *)
SpecSalesOne ==
  InitPage({1}, "sales", NoLimit)
    /\ [][NextSalesWith(Outcomes, StockFew, SaleValidInputs, RestockFew)]_vars

(* One session on the SalesPage; every backend call succeeds. *)
SpecSalesOk == InitPage({1}, "sales", NoLimit) /\ [][NextSales({"ok"})]_vars

(* Every session on the SalesPage; backend calls may fail. *)
SpecSales ==
  InitPage(Sessions, "sales", Some(MaxClicks))
    /\ [][NextSalesWith(Outcomes, StockFew, SaleFew, RestockFew)]_vars

(* Every session on the SalesPage; every backend call succeeds; the stock
   item holds two units and every sale is of two units. *)
SpecSalesTwo ==
  InitPage(Sessions, "sales", Some(MaxClicks))
    /\ [][NextSalesWith({"ok"}, StockFew, SaleTwo, RestockFew)]_vars

(* The steps of the expenses page of some session. *)
NextExpenses(O) ==
  \E s \in Sessions :
    \/ \E out \in O : FetchExpensesDone(s, out)
    \/ ExpenseToggleForm(s)
    \/ \E f \in ExpenseInputs, out \in O : ExpenseHandleSubmit(s, f, out)
    \/ \E id \in 1..MaxExpenses, out \in O : ExpenseHandleDelete(s, id, out)

(* One session on one of the pages; backend calls may fail. *)
Pages == {"debt", "sales", "expenses"}
InitCrud == \E p \in Pages : InitPage({1}, p, NoLimit)
NextCrud ==
  \/ NextDebt(Outcomes)
  \/ NextSalesWith(Outcomes, StockFew, SaleFew, RestockFew)
  \/ NextExpenses(Outcomes)
SpecCrud == InitCrud /\ [][NextCrud]_vars

(* exportToCsv is applied to a list of rows and its text is read back. *)
InitCsv ==
  /\ InitApp({}, "none", NoLimit)
  /\ csvRows \in {Some(r) : r \in RowLists}
  /\ job = NoJob(<<>>)
  /\ dashboard = NoDashboard
  /\ comparison = NoComparison
NextCsv == ExportToCsv \/ ReadCsv
SpecCsv == InitCsv /\ [][NextCsv]_vars

(* The steps of the SettingsPage of some session. *)
NextSettings(O) ==
  \E s \in Sessions :
    \/ \E out \in O : FetchSettingsDone(s, out)
    \/ \E goal \in GoalInputs, out \in O : SettingsHandleSave(s, goal, out)
    \/ \E out \in O : SettingsUpdate(s, out)
    \/ \E out \in O : SettingsInsert(s, out)

(* Every session on the SettingsPage; backend calls may fail. *)
SpecSettings ==
  InitPage(Sessions, "settings", Some(MaxClicks))
    /\ [][NextSettings(Outcomes)]_vars

(* The steps of the AnalyticsDashboard of some session. *)
NextAnalytics(O) ==
  \E s \in Sessions :
    \/ \E out \in O : FetchAnalyticsSales(s, out)
    \/ \E out \in O : FetchAnalyticsSettings(s, out)

(* One session that moves between the settings, the sales and the analytics
   page; every backend call succeeds. *)
AnalyticsPages == {"settings", "sales", "analytics"}
InitAnalytics == \E p \in AnalyticsPages : InitPage({1}, p, Some(MaxClicks))
NextAnalyticsApp ==
  \/ \E s \in Sessions, p \in AnalyticsPages : Navigate(s, p)
  \/ NextSettings({"ok"})
  \/ NextSalesWith({"ok"}, StockFew, SaleThin, RestockFew)
  \/ NextAnalytics({"ok"})
SpecAnalytics == InitAnalytics /\ [][NextAnalyticsApp]_vars

(* The statements the users send to the backend. *)
NextRls ==
  \E u \in Users, t \in TableNames :
    \/ RlsSelect(u, t)
    \/ \E ref \in RowIds, d \in DataValues : RlsInsert(u, t, ref, d)
    \/ \E id \in RowIds, ref \in RowIds, d \in DataValues :
         RlsUpdate(u, t, id, ref, d)
    \/ \E id \in RowIds : RlsDelete(u, t, id)
SpecRls == InitPage({}, "none", NoLimit) /\ [][NextRls]_vars

(* Every session on the DebtPage; every backend call succeeds; one item of
   0.01, an initial payment of 0.01 or none, payments of 0.01. *)
SpecDebtTwo ==
  InitPage(Sessions, "debt", NoLimit)
    /\ [][NextDebtWith({"ok"}, {<<1, 10>>}, {"Ada Obi"}, {Null, Some(10)},
                       {Some(10)})]_vars

(* Every session on the DebtPage; every backend call succeeds; one item of
   0.02, an initial payment of 0.02 or none, payments of 0.01 and of 0.02;
   the users perform MaxDebtClicks operations. *)
SpecDebtStale ==
  InitPage(Sessions, "debt", Some(MaxDebtClicks))
    /\ [][NextDebtWith({"ok"}, {<<1, 20>>}, {"Ada Obi"}, {Null, Some(20)},
                       {Some(10), Some(20)})]_vars

(* Every session on the DebtPage; backend calls may fail; one item of 0.01,
   an initial payment of 0.01 or none, payments of 0.01; the users perform
   MaxDebtClicks operations. *)
SpecDebtDelete ==
  InitPage(Sessions, "debt", Some(MaxDebtClicks))
    /\ [][NextDebtWith(Outcomes, {<<1, 10>>}, {"Ada Obi"}, {Null, Some(10)},
                       {Some(10)})]_vars

(* A run of the reminder job over a table of debtors. *)
InitReminders ==
  /\ InitApp({}, "none", NoLimit)
  /\ csvRows = Null
  /\ job \in {NoJob(table) : table \in ReminderTables}
  /\ dashboard = NoDashboard
  /\ comparison = NoComparison
NextReminders ==
  \/ \E configured \in BOOLEAN, out \in Outcomes :
       ReminderStart(configured, out)
  \/ \E send \in SendOutcomes : ReminderSend(send)
  \/ ReminderDone
SpecReminders == InitReminders /\ [][NextReminders]_vars

(* A comparison of two amounts. *)
InitComparison ==
  /\ InitApp({}, "none", NoLimit)
  /\ csvRows = Null
  /\ job = NoJob(<<>>)
  /\ dashboard = NoDashboard
  /\ comparison \in {Comparison(current, previous) :
                        current \in ComparisonAmounts,
                        previous \in ComparisonAmounts}
NextComparison == RenderComparison \/ ReportComparison
SpecComparison == InitComparison /\ [][NextComparison]_vars

(* A Dashboard from its mount on. *)
InitDashboard ==
  /\ InitApp({}, "none", NoLimit)
  /\ csvRows = Null
  /\ job = NoJob(<<>>)
  /\ dashboard \in {MountDashboard(session) : session \in AuthSessions}
  /\ comparison = NoComparison
NextDashboard ==
  \/ DashboardCheckUser
  \/ \E session \in AuthSessions : DashboardAuthStateChange(session)
  \/ \E p \in NavItems : SetCurrentPage(p)
  \/ HandleLogout
  \/ HandleLogoutEnd
  \/ \E session \in AuthSessions : DashboardMount(session)
SpecDashboard == InitDashboard /\ [][NextDashboard]_vars

(* One session on the DebtPage; backend calls may fail. *)
SpecDebtOne == InitPage({1}, "debt", NoLimit) /\ [][NextDebt(Outcomes)]_vars

(* One session on the DebtPage; every backend call succeeds. *)
SpecDebtOk == InitPage({1}, "debt", NoLimit) /\ [][NextDebt({"ok"})]_vars

(***************************************************************************)
(* Claims about debtors, debt items and payments.                          *)
(***************************************************************************)
(* No createDebtor and no PaymentModal.handleSubmit is between two of its
   backend calls. *)
DebtIdle == \A s \in Sessions : create[s].pc = "idle" /\ pay[s].pc = "idle"

(* C1: in one session whose backend calls all succeed, once the creation of a
   debtor and the payments recorded for it have run to their end, the debtor
   row has total_paid equal to the sum of the payments (the initial payment
   among them) and current_balance = grand_total - total_paid. *)
C1_BalanceAfterPayments ==
  DebtIdle =>
    \A id \in DOMAIN debtors :
      /\ debtors[id].total_paid = PaidSum(id)
      /\ debtors[id].current_balance =
           debtors[id].grand_total - debtors[id].total_paid

(* C2: every debtor row has status pending or paid, and it is paid exactly
   when its current_balance is <= 0. *)
C2_StatusMatchesBalance ==
  \A id \in DOMAIN debtors :
    /\ debtors[id].status \in {"pending", "paid"}
    /\ debtors[id].status = "paid" <=> debtors[id].current_balance <= 0

(* C3: every debtor row has current_balance = grand_total - total_paid. *)
C3_BalanceIdentity ==
  \A id \in DOMAIN debtors :
    debtors[id].current_balance =
      debtors[id].grand_total - debtors[id].total_paid

(* C4: in one session, while no operation is in flight, the amounts of a
   debtor's payment rows add up to the total_paid of its row, whichever
   backend calls have failed. *)
C4_PaymentsSumToTotalPaid ==
  DebtIdle => \A id \in DOMAIN debtors : PaidSum(id) = debtors[id].total_paid

(* C8: every debt item has total = quantity * selling_price, the form's
   grand_total is the sum of the totals of the items in the bundle, and the
   grand_total of a debtor whose creation has run to its end is the sum of the
   totals of its debt items. *)
C8_TotalsAddUp ==
  /\ \A it \in BagToSet(debt_items) : it.total = it.quantity * it.selling_price
  /\ \A s \in Sessions :
       /\ \A i \in 1..Len(formData[s].items) :
            formData[s].items[i].total =
              formData[s].items[i].quantity * formData[s].items[i].selling_price
       /\ formData[s].grand_total = GrandTotal(formData[s].items)
  /\ DebtIdle =>
       \A id \in DOMAIN debtors : debtors[id].grand_total = ItemsSum(id)

(***************************************************************************)
(* Claims about stock and sales.                                           *)
(***************************************************************************)
(* Session s ends its handleSubmit with the insert of a sale row. *)
SaleInserted(s) ==
  sale[s].pc = "insert" /\ sale'[s].pc = "idle" /\ saleSeq' = saleSeq + 1

(* C5: a sale of quantity q for a product that has one stock item, of
   quantity s, is recorded only if the availability check has been applied to
   the item and q <= s; the deduction sets the item's quantity to s - q and its
   total_sold to total_sold + q; a sale of q > s is rejected, with no sale row
   inserted and the stock rows unchanged. *)
C5_SaleChecksStock ==
  [][\A s \in Sessions :
       /\ (SaleInserted(s) /\ sale[s].matched = 1)
            => /\ ~IsNull(sale[s].stockItem)
               /\ Get(saleForm[s].quantity) <= Get(sale[s].stockItem).quantity
       /\ (sale[s].pc = "deduct" /\ sale'[s].pc = "insert"
              /\ Get(sale[s].stockItem).id \in DOMAIN stock)
            => LET item == Get(sale[s].stockItem)
                   q == Get(saleForm[s].quantity)
               IN /\ stock'[item.id].quantity = item.quantity - q
                  /\ stock'[item.id].total_sold = item.total_sold + q
       /\ toast' = Toast(s, "Insufficient stock", "")
            => stock' = stock /\ sales' = sales /\ sale'[s].pc = "idle"
    ]_vars

(* C6: every stock row has quantity >= 0 and total_sold >= 0, whatever the
   sessions' add-stock, record-sale and restock operations and however they
   interleave. *)
C6_StockNeverNegative ==
  \A id \in DOMAIN stock : stock[id].quantity >= 0 /\ stock[id].total_sold >= 0

(* A stock item has been added, restocked and sold from. *)
C6_Witness ==
  \E id \in DOMAIN stock :
    /\ stock[id].total_sold >= 1
    /\ stock[id].quantity + stock[id].total_sold = 3

(* C7: every sale row has total_cost = quantity * cost_price,
   revenue = quantity * selling_price and profit_loss = revenue - total_cost. *)
C7_SaleArithmetic ==
  \A id \in DOMAIN sales :
    /\ sales[id].total_cost = sales[id].quantity * sales[id].cost_price
    /\ sales[id].revenue = sales[id].quantity * sales[id].selling_price
    /\ sales[id].profit_loss = sales[id].revenue - sales[id].total_cost

(* A sale at a loss and a sale at a profit have been recorded. *)
C7_Witness ==
  /\ \E id \in DOMAIN sales : sales[id].profit_loss < 0
  /\ \E id \in DOMAIN sales : sales[id].profit_loss > 0

(***************************************************************************)
(* Claims about the CSV export and about backend errors.                   *)
(***************************************************************************)
(* C9: for every non-empty list of rows, reading back the text that
   exportToCsv writes gives the keys and then the rows, with the same field
   values, commas, double quotes and newlines included. *)
C9_CsvRoundTrip ==
  ~IsNull(csvParsed) =>
    Get(csvParsed) = <<Keys(Len(Get(csvRows)[1]))>> \o Get(csvRows)

(* A value with a comma, a double quote and a newline has been read back
   unchanged. *)
C9_QuotedRoundTrip ==
  /\ ~IsNull(csvParsed)
  /\ Get(csvParsed) = <<Keys(Len(Get(csvRows)[1]))>> \o Get(csvRows)
  /\ \E i \in 1..Len(Get(csvRows)) :
       \E j \in 1..Len(Get(csvRows)[i]) :
         Includes(Get(csvRows)[i][j], "\"")

(* The titles of the toasts that the listed operations show when their
   backend call returns an error. *)
CrudErrorTitles ==
  {"Error adding expense", "Error deleting expense", "Error adding stock",
   "Error deleting stock", "Error restocking", "Error deleting sale",
   "Error recording payment", "Error updating debtor", "Error deleting debtor"}

(* C10: when the backend call of add expense, add stock, restock, record
   payment or delete expense / sale / stock / debtor returns an error, the
   handler shows the backend's message in a toast and leaves the local state
   as it is: the form keeps what was typed and is not closed, the displayed lists
   are neither modified nor refetched, and the success path (form reset,
   dialog closed, refetch) is not taken. *)
C10_ErrorLeavesLocalState ==
  [][toast'.title \in CrudErrorTitles =>
       LET s == toast'.session
           title == toast'.title
       IN /\ toast'.description \in Errors
          /\ failures' = failures + 1
          /\ title = "Error adding expense"
               => expenseForm'[s] # EmptyExpenseForm /\ showForm'[s]
          /\ title = "Error adding stock"
               => stockForm'[s] # EmptyStockForm /\ showForm'[s]
          /\ title = "Error restocking"
               => /\ restockItem'[s] = restockItem[s] /\ ~IsNull(restockItem[s])
                  /\ ~IsNull(restockQuantity'[s])
          /\ title \in {"Error recording payment", "Error updating debtor"}
               => /\ ~IsNull(amount'[s])
                  /\ isPaymentModalOpen'[s] = isPaymentModalOpen[s]
                  /\ selectedDebtor'[s] = selectedDebtor[s]
          /\ debtorsView' = debtorsView /\ stockView' = stockView
          /\ salesView' = salesView /\ expensesView' = expensesView
          /\ fetching' = fetching /\ stockFetching' = stockFetching
          /\ loading' = loading /\ stockLoading' = stockLoading
          /\ formData' = formData /\ saleForm' = saleForm
    ]_vars

(* The restock dialog shows the error of a restock that the backend refused. *)
C10_Witness ==
  /\ toast.title = "Error restocking"
  /\ toast.description \in Errors
  /\ ~IsNull(restockItem[toast.session])

(***************************************************************************)
(* Claims about the settings, the row-level policies and the analytics.    *)
(***************************************************************************)
(* The number of rows of user_settings of a user. *)
SettingsCount(rows, user) ==
  BagCardinality([r \in {x \in BagToSet(rows) : x.user_id = user} |->
                    CopiesIn(r, rows)])

(* C11: user_settings holds at most one row per user in every reachable
   state; handleSave goes on to update only when its lookup found the user's
   row; a row is inserted only when the user has none; and an insert that
   finds a row of the user (two concurrent saves, or a save whose lookup
   failed) is refused with the error of the unique constraint in a toast and
   leaves the table as it is. *)
C11_OneSettingsRow ==
  /\ [](\A s \in Sessions : SettingsCount(user_settings, UserId(s)) <= 1)
  /\ [][\A s \in Sessions :
          /\ (save[s].pc = "idle" /\ save'[s].pc = "update")
               => SettingsCount(user_settings, UserId(s)) = 1
          /\ (save[s].pc = "update" /\ save'[s].pc = "idle")
               => BagCardinality(user_settings') = BagCardinality(user_settings)
          /\ (save[s].pc = "insert" /\ save'[s].pc = "idle")
               => IF SettingsCount(user_settings, UserId(s)) = 0
                    THEN \/ /\ SettingsCount(user_settings', UserId(s)) = 1
                            /\ toast'.title = "Settings saved successfully!"
                         \/ /\ user_settings' = user_settings
                            /\ toast'.title = "Error saving settings"
                            /\ toast'.description \in Errors
                    ELSE /\ user_settings' = user_settings
                         /\ toast'.title = "Error saving settings"
                         /\ toast'.description \in Errors \cup {DuplicateKey}
                         /\ failures' = failures
                              => toast'.description = DuplicateKey
      ]_vars

(* Two saves have run at once with no backend failure: one inserted the row,
   the insert of the other was refused. *)
C11_Witness ==
  /\ failures = 0
  /\ \A s \in Sessions : save[s].pc = "idle"
  /\ toast.title = "Error saving settings"
  /\ toast.description = DuplicateKey
  /\ BagCardinality(user_settings) = 1

(* The user a row belongs to: the user_id of the row, or of the debtor the
   row refers to. *)
Owner(tabs, t, r) ==
  IF t \in ChildTables
    THEN (CHOOSE d \in tabs["debtors"] : d.id = r.debtor_id).user_id
    ELSE r.user_id
(* The rows of table t that belong to user u, and the rows u is shown. *)
RowsOf(tabs, t, u) == {r \in tabs[t] : Owner(tabs, t, r) = u}
Visible(tabs, t, u) == {r \in tabs[t] : Passes(tabs, t, "SELECT", u, r)}

(* C12: a select, insert, update or delete sent as user u returns only rows
   that belong to u (by user_id, or for debt_items and payments by the user_id
   of their debtor), removes and adds only rows that belong to u, and leaves
   the rows of every other user, and what every other user is shown, as they
   were. *)
C12_RowIsolation ==
  [][LET u == selected'.user
     IN /\ \A r \in selected'.rows : Owner(tables, selected'.table, r) = u
        /\ \A t \in TableNames :
             /\ \A r \in tables[t] \ tables'[t] : Owner(tables, t, r) = u
             /\ \A r \in tables'[t] \ tables[t] : Owner(tables', t, r) = u
             /\ \A v \in Users \ {u} :
                  /\ RowsOf(tables', t, v) = RowsOf(tables, t, v)
                  /\ Visible(tables', t, v) = Visible(tables, t, v)
    ]_vars

(* A user has selected from a table that holds a row of another user, and
   was shown a row. *)
C12_Witness ==
  /\ selected.table \in TableNames
  /\ selected.rows # {}
  /\ \E r \in tables[selected.table] : r \notin selected.rows

(* The goal the user has saved: the profit_margin_goal of their row of
   user_settings, or the default when they have no row. *)
SavedGoal(user) ==
  IF SettingsOf(user) = {} THEN DefaultGoal
  ELSE (CHOOSE r \in SettingsOf(user) : TRUE).profit_margin_goal

(* C13: once the analytics page has loaded, the low-margin alert is shown
   exactly when the revenue of the sales fetched is positive and the profit
   margin (profit / revenue * 100) is below the goal the user has saved; the
   default of 20 is the goal only of a user who has saved none. *)
C13_AlertMatchesSavedGoal ==
  \A s \in Sessions :
    (currentPage[s] = "analytics" /\ ~loading[s])
      => (AlertShown(s) <=>
            /\ salesData[s].revenue > 0
            /\ salesData[s].profit * 100
                 < SavedGoal(UserId(s)) * salesData[s].revenue)

(***************************************************************************)
(* Claims about two sessions at once, and about sales and stock.           *)
(***************************************************************************)
(* C14: payments are recorded with no concurrency control: the update of the
   debtor row that ends a payment of a writes total_paid = t + a and
   current_balance = b - a, where (t, b) are the total_paid and the
   current_balance of the row as the session had loaded it, whatever the row
   holds by then; so of two sessions that loaded the same row the debtor row
   reflects the last writer only. *)
C14_LastWriterWins ==
  [][\A s \in Sessions :
       (/\ pay[s].pc = "update" /\ pay'[s].pc = "idle"
        /\ toast'.title = "Payment recorded successfully!"
        /\ Get(pay[s].debtor).id \in DOMAIN debtors)
         => LET loaded == Get(pay[s].debtor)
                a == pay[s].paymentAmount
            IN /\ debtors'[loaded.id].total_paid = loaded.total_paid + a
               /\ debtors'[loaded.id].current_balance
                    = loaded.current_balance - a
    ]_vars

(* Two sessions have each recorded a payment of 0.01 against the debtor row
   (total_paid 0, current_balance 0.01) both had loaded: both payment rows
   exist, total_paid is 0.01 and not their sum 0.02, and the sum exceeds
   grand_total 0.01. *)
C14_Witness ==
  /\ \A s \in Sessions : pay[s].pc = "idle"
  /\ 1 \in DOMAIN debtors
  /\ RowCount(payments) = 2
  /\ debtors[1].total_paid = 10
  /\ debtors[1].current_balance = 0
  /\ PaidSum(1) = 20
  /\ PaidSum(1) > debtors[1].grand_total

(* C15: the deduction of a sale is a lost update: the update that deducts a
   sale of q writes quantity = s - q and total_sold = d + q, where (s, d) are
   the quantity and the total_sold of the stock row as handleSubmit had read
   it, whatever the row holds by then; so of two sessions that read the same
   row the stock row reflects the last writer only, and more units are sold
   than were in stock. *)
C15_DeductionIsLostUpdate ==
  [][\A s \in Sessions :
       (/\ sale[s].pc = "deduct" /\ sale'[s].pc = "insert"
        /\ Get(sale[s].stockItem).id \in DOMAIN stock)
         => LET read == Get(sale[s].stockItem)
                q == Get(saleForm[s].quantity)
            IN /\ stock'[read.id].quantity = read.quantity - q
               /\ stock'[read.id].total_sold = read.total_sold + q
    ]_vars

(* Two sessions have each read the one stock row (quantity 2, total_sold 0)
   for a sale of two units and both deductions have been written; the two
   sale rows are about to be inserted, and the stock row holds quantity 0 and
   total_sold 2 for the four units sold. *)
C15_Witness ==
  /\ stockSeq = 1 /\ 1 \in DOMAIN stock
  /\ \A s \in Sessions :
       /\ sale[s].pc = "insert"
       /\ sale[s].stockItem = Some([id |-> 1, quantity |-> 2, total_sold |-> 0])
       /\ saleForm[s].quantity = Some(2)
  /\ stock[1].quantity = 0
  /\ stock[1].total_sold = 2

(* C16: createDebtor has no rollback: when its insert into debt_items fails,
   the debtor row remains with total_paid equal to the initial payment amount,
   no row is written to debt_items or payments and the form keeps its
   contents; when its insert into debtors fails, nothing is written. *)
C16_NoRollback ==
  [][\A s \in Sessions :
       /\ (/\ create[s].pc = "items" /\ create'[s].pc = "idle"
           /\ toast'.title = "Error adding items")
            => /\ create[s].debtorId \in DOMAIN debtors'
               /\ debtors'[create[s].debtorId].total_paid
                    = create[s].paymentAmount
               /\ payments' = payments
               /\ debt_items' = debt_items
               /\ formData'[s] = formData[s]
       /\ (toast'.session = s /\ toast'.title = "Error creating debtor")
            => UNCHANGED debtDb
    ]_vars

(* The sum of the quantities of the rows ids of sales. *)
RECURSIVE SoldQuantity(_)
SoldQuantity(ids) ==
  IF ids = {} THEN 0
  ELSE LET id == CHOOSE i \in ids : TRUE
       IN sales[id].quantity + SoldQuantity(ids \ {id})
(* The rows of sales stored for the product of stock item id. *)
SalesOf(id) ==
  {i \in DOMAIN sales :
     Lower(sales[i].product_name) = Lower(stock[id].product_name)}

(* C17: with no handleSubmit in flight, each stock item's total_sold equals
   the sum of the quantities of the sale rows stored for its product since the
   item was added.  Those rows are among the rows stored for the product, so
   total_sold is at most the sum of the quantities of all of them. *)
C17_TotalSoldMatchesSales ==
  (\A s \in Sessions : sale[s].pc = "idle")
    => \A id \in DOMAIN stock : stock[id].total_sold <= SoldQuantity(SalesOf(id))

(* The amounts a restock can add: the valid inputs of the restock dialog. *)
RestockAmounts == {Get(x) : x \in {y \in RestockInputs : Get(y) >= 1}}

(* C18: a restock of r adds r to quantity + total_sold of the stock row, so
   that quantity + total_sold stays the initial quantity plus the restocked
   amounts, also when a sale was recorded after the stock table on screen was
   fetched. *)
C18_RestockAddsToStored ==
  [][\A s \in Sessions :
       (/\ toast' = Toast(s, "Added units to stock", "")
        /\ ~IsNull(restockItem[s])
        /\ Get(restockItem[s]).id \in DOMAIN stock)
         => LET id == Get(restockItem[s]).id
            IN /\ stock'[id].total_sold = stock[id].total_sold
               /\ \E r \in RestockAmounts :
                    stock'[id].quantity = stock[id].quantity + r
    ]_vars

(* C19: when handleSubmit ends with no sale row inserted (the sale is refused
   for insufficient stock, or the update of the stock or the insert of the
   sale returns an error), the stock row it matched holds the quantity and the
   total_sold it held when handleSubmit read it. *)
C19_NoSaleNoDeduction ==
  [][\A s \in Sessions :
       /\ toast' = Toast(s, "Insufficient stock", "") => stock' = stock
       /\ (/\ sale[s].pc \in {"deduct", "insert"} /\ sale'[s].pc = "idle"
           /\ saleSeq' = saleSeq
           /\ ~IsNull(sale[s].stockItem)
           /\ Get(sale[s].stockItem).id \in DOMAIN stock')
            => LET read == Get(sale[s].stockItem)
               IN /\ stock'[read.id].quantity = read.quantity
                  /\ stock'[read.id].total_sold = read.total_sold
    ]_vars

(* C20: whenever a sale row is inserted for a product whose name matches one
   or more stock rows, the availability check was applied to a matching row
   and that row was decremented: handleSubmit held the row it had read. *)
C20_MatchedSaleDeducts ==
  [][\A s \in Sessions :
       (SaleInserted(s) /\ sale[s].matched >= 1) => ~IsNull(sale[s].stockItem)
    ]_vars

(***************************************************************************)
(* Claims about the bounds of a debtor row, its status and its rows.       *)
(***************************************************************************)
(* The amount typed is refused by PaymentModal.handleSubmit for the debtor
   loaded: not a number, below 0.01, or above the current_balance. *)
PaymentRefused(text, debtor) ==
  ~PaymentValid(text) \/ Get(text) > debtor.current_balance

(* C21: a submit of the PaymentModal with an amount that is not a number, is
   below 0.01 or exceeds the current_balance of the debtor loaded writes
   nothing to the backend; and every debtor row has current_balance >= 0 and
   0 <= total_paid <= grand_total in every reachable state. *)
C21_PaymentWithinBalance ==
  /\ [][\A s \in Sessions :
          (/\ isPaymentModalOpen[s] /\ pay[s].pc = "idle"
           /\ ~IsNull(selectedDebtor[s])
           /\ amount'[s] # amount[s]
           /\ PaymentRefused(amount'[s], Get(selectedDebtor[s])))
            => UNCHANGED debtDb
      ]_vars
  /\ [](\A id \in DOMAIN debtors :
          /\ debtors[id].current_balance >= 0
          /\ debtors[id].total_paid >= 0
          /\ debtors[id].total_paid <= debtors[id].grand_total)

(* C22: status "paid" is absorbing: no step takes a debtor row that has
   status "paid" back to "pending" or raises its current_balance, also when
   another session still holds a copy of the row from before it was paid. *)
C22_PaidIsAbsorbing ==
  [][\A id \in DOMAIN debtors :
       (debtors[id].status = "paid" /\ id \in DOMAIN debtors')
         => /\ debtors'[id].status = "paid"
            /\ debtors'[id].current_balance <= debtors[id].current_balance
    ]_vars

(* C23: in every reachable state every row of payments and every row of
   debt_items references a debtor that exists: a deleteDebtor takes the
   debtor's debt items and payments with it, also while a createDebtor or a
   payment for that debtor is in flight in another session. *)
C23_RowsReferenceDebtor ==
  /\ \A r \in BagToSet(payments) : r.debtor_id \in DOMAIN debtors
  /\ \A r \in BagToSet(debt_items) : r.debtor_id \in DOMAIN debtors

(* A session has inserted a payment row and is about to update the debtor;
   another session has just deleted the debtor, and the payment row went with
   it. *)
C23_Witness ==
  /\ toast.title = "Debtor deleted successfully"
  /\ \E s \in Sessions :
       /\ toast.session # s
       /\ pay[s].pc = "update"
       /\ Get(pay[s].debtor).id \notin DOMAIN debtors
  /\ RowCount(payments) = 0
  /\ RowCount(debt_items) = 0

(***************************************************************************)
(* Claims about the reminder job, the Dashboard and the comparisons.       *)
(***************************************************************************)
(* C24: a run of the reminder job makes exactly one send attempt for each
   debtor its query returned, in their order, whatever the earlier sends came
   to; every attempt is counted once, as sent or as failed, with one entry in
   results.errors per failure; and when the run completes
   results.sent + results.failed = results.total. *)
C24_OneAttemptPerDebtor ==
  job.pc \in {"loop", "done"} /\ job.status # 500 =>
    /\ job.debtors = PendingWithEmail(job.table)
    /\ job.results.total = Len(job.debtors)
    /\ Len(job.attempts) = job.index - 1
    /\ \A k \in 1..Len(job.attempts) : job.attempts[k].debtor = k
    /\ job.results.sent + job.results.failed = Len(job.attempts)
    /\ job.results.sent
         = Cardinality({k \in 1..Len(job.attempts) :
                          job.attempts[k].outcome = "ok"})
    /\ Len(job.results.errors) = job.results.failed
    /\ job.pc = "done" =>
         /\ Len(job.attempts) = Len(job.debtors)
         /\ job.results.sent + job.results.failed = job.results.total

(* A run over three debtors has completed: the first send threw, the second
   was refused and the third went through. *)
C24_Witness ==
  /\ job.pc = "done" /\ job.status = 200
  /\ Len(job.attempts) = 3
  /\ job.attempts[1].outcome = "throws"
  /\ job.attempts[2].outcome = "not ok"
  /\ job.attempts[3].outcome = "ok"
  /\ job.results.sent = 1 /\ job.results.failed = 2

(* C25: the Dashboard renders a page component only after a session has been
   delivered to it and getSession has resolved, and only while user is not
   null; until getSession resolves it shows the loading state; and after
   getSession returned no session, or the listener of onAuthStateChange was
   called with a null session, the route is "/auth". *)
C25_NoPageBeforeSession ==
  dashboard.route # "" =>
    /\ PageRendered(dashboard) # "none" =>
         /\ dashboard.obtained
         /\ dashboard.getSession = "resolved"
         /\ ~IsNull(dashboard.user)
    /\ dashboard.route = "/" /\ dashboard.getSession = "pending" =>
         dashboard.loading
    /\ dashboard.event.from # "" /\ IsNull(dashboard.event.session) =>
         dashboard.route = "/auth"

(* The debt page is on screen for user 2, whose session the listener of
   onAuthStateChange delivered last. *)
C25_Witness ==
  /\ PageRendered(dashboard) = "debt"
  /\ dashboard.event = [from |-> "onAuthStateChange", session |-> Some(2)]
  /\ dashboard.user = Some(2)

(* C26: for every current and previous, a negative and a zero previous
   included, what is shown of the comparison has one direction: the indicator
   and the text report an increase exactly when current > previous (where the
   class is "trend-up"), a decrease exactly when current < previous (where the
   class is "trend-down"), and "No change" exactly when the two are equal. *)
C26_DirectionConsistent ==
  comparison # NoComparison =>
    LET current == comparison.current
        previous == comparison.previous
    IN /\ ~IsNull(comparison.indicator) =>
            LET icon == Get(comparison.indicator).icon
            IN /\ icon = "TrendingUp" <=> current > previous
               /\ icon = "TrendingDown" <=> current < previous
               /\ icon = "Minus" <=> current = previous
       /\ ~IsNull(comparison.text) =>
            LET arrow == Get(comparison.text).arrow
                class == Get(comparison.class)
            IN /\ arrow = "up" <=> current > previous
               /\ arrow = "down" <=> current < previous
               /\ arrow = "No change" <=> current = previous
               /\ class = "trend-up" <=> current > previous
               /\ class = "trend-down" <=> current < previous

====
